---- MODULE Spec2Model ----
(***************************************************************************)
(* A model of the SMAP L2 gridding service (smap_l2_gridder).              *)
(*                                                                         *)
(*   Spec      the orchestrator, process_input (grid.py), run step by      *)
(*             step over a bounded family of input DataTrees.              *)
(*   SpecGrid  the scatter engine, variable_fill_value and grid_variable   *)
(*             (grid.py), applied to a bounded family of 1D variables and  *)
(*             row/column index arrays.                                    *)
(*   SpecCalls the functions of collections.py and grid.py that take no    *)
(*             part in a write, each called once on a bounded family of    *)
(*             arguments.                                                  *)
(*   SpecLive  Spec with the steps of process_input taken to the end.      *)
(*   SpecAdapter  process_item of the Harmony adapter (adapter.py), step   *)
(*             by step over a bounded family of STAC items, each           *)
(*             collaborator call returning or raising.                     *)
(***************************************************************************)
EXTENDS Integers, Sequences, FiniteSets, TLC

VARIABLES
    in_file,      \* the DataTree open_datatree reads from the input file
    in_data,      \* in_data of process_input: top-level group -> node
    gpd_bad,      \* the gpd file (if any) whose origin convention is not -0.5
    pc,           \* position of process_input
    out_log,      \* the to_netcdf calls made on output_file, in order
    todo_groups,  \* data_group_names not yet iterated
    cur_group,    \* group_name of the running iteration
    todo_vars,    \* vars_to_grid not yet iterated
    grid_info,    \* grid_info of the running iteration
    short_name,   \* short_name of process_input
    error,        \* the exception that left process_input, or NoExc
    reads,        \* every in_data[...] path read, with the group it was read for
    gv_var,       \* SpecGrid: the variable handed to the scatter engine
    gv_info,      \* SpecGrid: its grid_info
    gv_pc,        \* SpecGrid: "input", "filled", "gridded"
    gv_fill,      \* SpecGrid: what variable_fill_value returned
    gv_result,    \* SpecGrid: what grid_variable returned (or raised)
    call,         \* SpecCalls: the function called and its arguments
    call_pc,      \* SpecCalls: "called", "returned"
    ret,          \* SpecCalls: what the call returned (or raised)
    arg_after,    \* SpecCalls: the tree passed to the call, after the call
    item_assets,  \* SpecAdapter: item.assets.values(), in order
    asset,        \* SpecAdapter: the asset process_item selected
    ad_pc,        \* SpecAdapter: position of process_item
    ad_calls,     \* SpecAdapter: the collaborator calls made, in order
    results,      \* SpecAdapter: results.assets of process_item
    ad_return     \* SpecAdapter: what process_item returned (or raised)

orch_vars == <<in_file, in_data, gpd_bad, pc, out_log, todo_groups, cur_group,
               todo_vars, grid_info, short_name, error, reads>>
grid_vars == <<gv_var, gv_info, gv_pc, gv_fill, gv_result>>
call_vars == <<call, call_pc, ret, arg_after>>
adapter_vars == <<item_assets, asset, ad_pc, ad_calls, results, ad_return>>
vars == <<in_file, in_data, gpd_bad, pc, out_log, todo_groups, cur_group,
          todo_vars, grid_info, short_name, error, reads,
          gv_var, gv_info, gv_pc, gv_fill, gv_result,
          call, call_pc, ret, arg_after,
          item_assets, asset, ad_pc, ad_calls, results, ad_return>>

(***************************************************************************)
(* Bounds of the model.                                                    *)
(***************************************************************************)
\* 'Grid Height' and 'Grid Width' of the target grid (read from a gpd file).
GridHeight == 2
GridWidth == 2
\* Number of samples of every 1D variable.
NSamples == 2

(***************************************************************************)
(* Values.  Array elements, attributes and encodings are records of one    *)
(* shape so that any two can be compared: Python's None, a float NaN, a    *)
(* number, or a text.                                                      *)
(***************************************************************************)
None == [k |-> "none", n |-> 0, s |-> ""]
NaN == [k |-> "nan", n |-> 0, s |-> ""]
Num(n) == [k |-> "num", n |-> n, s |-> ""]
Str(s) == [k |-> "str", n |-> 0, s |-> s]

\* A dict built from (key, value) pairs; a pair whose value is None is absent.
MkDict(pairs) ==
    LET present == {p \in pairs : p[2] # None}
    IN  [key \in {p[1] : p \in present} |->
            (CHOOSE p \in present : p[1] = key)[2]]

\* dict.get(key) / dict.get(key, None)
Get(d, key) == IF key \in DOMAIN d THEN d[key] ELSE None

\* dict.get(key, default)
GetOr(d, key, default) == IF key \in DOMAIN d THEN d[key] ELSE default

(***************************************************************************)
(* numpy dtypes                                                            *)
(***************************************************************************)
FloatDtypes == {"float16", "float32", "float64"}
IntDtypes == {"uint8", "int8", "uint16", "int16", "int32"}
TextDtypes == {"<U24"}
BytesDtypes == {"S24"}
BoolDtypes == {"bool"}
DatetimeDtypes == {"datetime64[ns]"}
ObjectDtypes == {"object"}

\* np.issubdtype(dtype, np.number)
is_number(dtype) == dtype \in FloatDtypes \cup IntDtypes

\* np.issubdtype(dtype, np.floating)
is_floating(dtype) == dtype \in FloatDtypes

\* np.iinfo(dtype).max
iinfo_max(dtype) ==
    IF dtype = "uint8" THEN 255
    ELSE IF dtype = "int8" THEN 127
    ELSE IF dtype = "uint16" THEN 65535
    ELSE IF dtype = "int16" THEN 32767
    ELSE 2147483647

\* np.dtype(dtype).type(value) for a float dtype and an integral value: the
\* nearest value the dtype represents.  float16 holds 11 significant bits,
\* so above 2048 it holds only the multiples of 2, 4, 8, ...
RECURSIVE float16_step(_)
float16_step(magnitude) ==
    IF magnitude < 2048 THEN 1 ELSE 2 * float16_step(magnitude \div 2)

np_float(value, dtype) ==
    LET magnitude == IF value < 0 THEN 0 - value ELSE value
        sign == IF value < 0 THEN -1 ELSE 1
        step == float16_step(magnitude)
        below == (magnitude \div step) * step
        nearest == IF 2 * (magnitude - below) < step THEN below
                   ELSE IF 2 * (magnitude - below) > step THEN below + step
                   ELSE IF (below \div step) % 2 = 0 THEN below
                   ELSE below + step
    IN  IF dtype = "float16" THEN sign * nearest ELSE value

\* np.isnan(array) raises TypeError on a text array and on an object array
isnan_raises(dtype) == dtype \in TextDtypes \cup ObjectDtypes

\* What an array of `dtype` stores when `value` is assigned into it:
\* None becomes the text 'None' in a text or bytes array, nan in a float
\* array, NaT (held as NaN) in a datetime array and False in a boolean array.
np_cast(value, dtype) ==
    IF value = None /\ dtype \in TextDtypes \cup BytesDtypes THEN Str("None")
    ELSE IF value = None /\ dtype \in FloatDtypes \cup DatetimeDtypes THEN NaN
    ELSE IF value = None /\ dtype \in BoolDtypes
    THEN [k |-> "bool", n |-> 0, s |-> ""]
    ELSE value

(***************************************************************************)
(* Fill values (grid.py)                                                   *)
(***************************************************************************)
\* A variant that returns the Python float -9999.0 for every float dtype.
default_fill_value_uncast(data_type) ==
    IF ~is_number(data_type) THEN None
    ELSE IF is_floating(data_type) THEN Num(-9999)
    ELSE Num(iinfo_max(data_type))

default_fill_value(data_type) ==
    IF ~is_number(data_type) THEN None
    ELSE IF is_floating(data_type) THEN Num(np_float(-9999, data_type))
    ELSE Num(iinfo_max(data_type))

\* var.encoding.get('dtype', var.dtype)
storage_dtype(var) == GetOr(var.encoding, "dtype", Str(var.dtype)).s

\* A variant that consults missing_value before the attribute _FillValue.
variable_fill_value_missing_first(var) ==
    LET f1 == Get(var.encoding, "_FillValue")
        f2 == IF f1 = None THEN Get(var.attrs, "missing_value") ELSE f1
        f3 == IF f2 = None THEN Get(var.attrs, "_FillValue") ELSE f2
        f4 == IF f3 = None THEN default_fill_value(storage_dtype(var)) ELSE f3
    IN  f4

variable_fill_value(var) ==
    LET f1 == Get(var.encoding, "_FillValue")
        f2 == IF f1 = None THEN Get(var.attrs, "_FillValue") ELSE f1
        f3 == IF f2 = None THEN Get(var.attrs, "missing_value") ELSE f2
        f4 == IF f3 = None THEN default_fill_value(storage_dtype(var)) ELSE f3
    IN  f4

(***************************************************************************)
(* The scatter (grid.py, grid_variable)                                    *)
(***************************************************************************)
\* np.full((height, width), fill_val, dtype=dtype)
np_full(height, width, fill_val, dtype) ==
    [cell \in (0 .. height - 1) \X (0 .. width - 1) |-> np_cast(fill_val, dtype)]

\* A variant that treats every sample as valid.
valid_mask_all(var) ==
    [i \in 1 .. Len(var.data) |-> TRUE]

\* try: ~np.isnan(var.data)  except TypeError: var.data != ''
valid_mask(var) ==
    [i \in 1 .. Len(var.data) |->
        IF isnan_raises(var.dtype) THEN var.data[i] # Str("")
        ELSE var.data[i] # NaN]

\* The sample indices a boolean mask selects, in sample order.
RECURSIVE MaskSelect(_, _)
MaskSelect(mask, i) ==
    IF i > Len(mask) THEN <<>>
    ELSE (IF mask[i] THEN <<i>> ELSE <<>>) \o MaskSelect(mask, i + 1)

\* A variant in which a cell keeps the first value assigned to it.
RECURSIVE scatter_first_wins(_, _, _, _, _, _)
scatter_first_wins(grid, idx, rows, cols, data, dtype) ==
    IF idx = <<>> THEN grid
    ELSE LET i == idx[Len(idx)]
             cell == <<rows[i], cols[i]>>
         IN  scatter_first_wins(
                 [grid EXCEPT ![cell] = np_cast(data[i], dtype)],
                 SubSeq(idx, 1, Len(idx) - 1), rows, cols, data, dtype)

\* grid[valid_rows, valid_cols] = valid_values: the assignments are made in
\* sample order, so a repeated cell keeps the last value assigned to it.
RECURSIVE scatter(_, _, _, _, _, _)
scatter(grid, idx, rows, cols, data, dtype) ==
    IF idx = <<>> THEN grid
    ELSE LET i == Head(idx)
             cell == <<rows[i], cols[i]>>
         IN  scatter([grid EXCEPT ![cell] = np_cast(data[i], dtype)],
                     Tail(idx), rows, cols, data, dtype)

\* numpy checks every index of an index array before it assigns anything.
indices_in_bounds(idx, rows, cols, height, width) ==
    \A k \in 1 .. Len(idx) :
        /\ rows[idx[k]] \in 0 .. height - 1
        /\ cols[idx[k]] \in 0 .. width - 1

\* The outcome of a call: a DataArray, or the exception raised.
Raised(type) == [status |-> type, dims |-> <<>>, shape |-> <<>>,
                 dtype |-> "", written |-> <<>>, cells |-> <<>>]

\* A variant that drops the samples whose index is outside the grid.
grid_variable_clipped(var, info) ==
    LET height == info.target.GridHeight
        width == info.target.GridWidth
        dtype == storage_dtype(var)
        all_idx == MaskSelect(valid_mask(var), 1)
        inside(i) == /\ info.src.rows[i] \in 0 .. height - 1
                     /\ info.src.cols[i] \in 0 .. width - 1
        idx == SelectSeq(all_idx, inside)
    IN  [status |-> "ok", dims |-> <<"y-dim", "x-dim">>,
         shape |-> <<height, width>>, dtype |-> dtype, written |-> idx,
         cells |-> scatter(np_full(height, width, variable_fill_value(var), dtype),
                           idx, info.src.rows, info.src.cols, var.data, dtype)]

\* A variant that indexes the grid as grid[valid_cols, valid_rows].
grid_variable_transposed(var, info) ==
    LET height == info.target.GridHeight
        width == info.target.GridWidth
        dtype == storage_dtype(var)
        idx == MaskSelect(valid_mask(var), 1)
    IN  IF ~indices_in_bounds(idx, info.src.cols, info.src.rows, height, width)
        THEN Raised("IndexError")
        ELSE [status |-> "ok", dims |-> <<"y-dim", "x-dim">>,
              shape |-> <<height, width>>, dtype |-> dtype, written |-> idx,
              cells |-> scatter(
                  np_full(height, width, variable_fill_value(var), dtype),
                  idx, info.src.cols, info.src.rows, var.data, dtype)]

grid_variable(var, info) ==
    LET fill_val == variable_fill_value(var)
        height == info.target.GridHeight
        width == info.target.GridWidth
        dtype == storage_dtype(var)
        grid == np_full(height, width, fill_val, dtype)
        idx == MaskSelect(valid_mask(var), 1)
    IN  IF ~indices_in_bounds(idx, info.src.rows, info.src.cols, height, width)
        THEN Raised("IndexError")
        ELSE [status |-> "ok", dims |-> <<"y-dim", "x-dim">>,
              shape |-> <<height, width>>, dtype |-> dtype, written |-> idx,
              cells |-> scatter(grid, idx, info.src.rows, info.src.cols,
                                var.data, dtype)]

(***************************************************************************)
(* SpecGrid: the scatter engine applied to a bounded family of inputs.     *)
(***************************************************************************)
\* The (in-memory dtype, stored encoding dtype) pairs of the input variables:
\* built in memory, read back from a file, an integer variable decoded to
\* float (its fill values are NaN in memory), a plain integer, a text.
DtypeCases ==
    { <<"float32", None>>, <<"float64", Str("float64")>>,
      <<"float32", Str("uint16")>>, <<"int16", None>>, <<"<U24", None>> }

Letters == <<"a", "b", "c", "d">>

\* The values sample i of an array of the dtype may hold.
SampleValues(dtype, i) ==
    IF dtype \in FloatDtypes THEN {Num(i), NaN}
    ELSE IF dtype \in IntDtypes THEN {Num(i)}
    ELSE {Str(Letters[i]), Str("")}

\* The k-th fill value candidate of a variable of the dtype.
FillCandidate(dtype, k) ==
    IF dtype \in TextDtypes THEN Str(Letters[k]) ELSE Num(100 + k)

\* Every combination of the three fill sources is drawn for a float
\* variable; the other dtypes are drawn with no source and with all three.
FillCases(dtype) ==
    IF dtype = "float32" THEN {None, FillCandidate(dtype, 1)}
                              \X {None, FillCandidate(dtype, 2)}
                              \X {None, FillCandidate(dtype, 3)}
    ELSE { <<None, None, None>>,
           <<FillCandidate(dtype, 1), FillCandidate(dtype, 2),
             FillCandidate(dtype, 3)>> }

\* The index values drawn for a dimension of the given size: the first
\* cell, the last cell, and the first index outside the grid.
IndexValues(size) == {0, size - 1, size}

MkVariable(dc, data, fills) ==
    [data |-> data,
     shape |-> <<Len(data)>>,
     dtype |-> dc[1],
     encoding |-> MkDict({<<"_FillValue", fills[1]>>, <<"dtype", dc[2]>>}),
     attrs |-> MkDict({<<"_FillValue", fills[2]>>,
                       <<"missing_value", fills[3]>>,
                       <<"long_name", Str("a variable")>>})]

GridVariables ==
    UNION { UNION { { MkVariable(dc, data, fills) : fills \in FillCases(dc[1]) } :
                    data \in { d \in [1 .. NSamples ->
                                        UNION {SampleValues(dc[1], i) :
                                               i \in 1 .. NSamples}] :
                               \A i \in 1 .. NSamples :
                                   d[i] \in SampleValues(dc[1], i) } } :
            dc \in DtypeCases }

GridInfos ==
    { [src |-> [rows |-> r, cols |-> c],
       target |-> [GridHeight |-> GridHeight, GridWidth |-> GridWidth]] :
      r \in [1 .. NSamples -> IndexValues(GridHeight)],
      c \in [1 .. NSamples -> IndexValues(GridWidth)] }

NotCalled == Raised("not called")

\* process_input is not running.
\* process_item is not running.
NoAsset == [key |-> "", href |-> "", roles |-> <<>>]

AdapterIdle ==
    /\ item_assets = <<>>
    /\ asset = NoAsset
    /\ ad_pc = "idle"
    /\ ad_calls = <<>>
    /\ results = <<>>
    /\ ad_return = <<>>

GridInit ==
    /\ in_file = <<>>
    /\ in_data = <<>>
    /\ gpd_bad = ""
    /\ pc = "idle"
    /\ out_log = <<>>
    /\ todo_groups = {}
    /\ cur_group = ""
    /\ todo_vars = {}
    /\ grid_info = <<>>
    /\ short_name = ""
    /\ error = [type |-> "", msg |-> <<>>]
    /\ reads = {}
    /\ gv_var \in GridVariables
    /\ gv_info \in GridInfos
    /\ gv_pc = "input"
    /\ gv_fill = None
    /\ gv_result = NotCalled
    /\ call = <<>>
    /\ call_pc = "idle"
    /\ ret = <<>>
    /\ arg_after = <<>>
    /\ AdapterIdle

\* fill_val = variable_fill_value(var)
CallVariableFillValue ==
    /\ gv_pc = "input"
    /\ gv_fill' = variable_fill_value(gv_var)
    /\ gv_pc' = "filled"
    /\ UNCHANGED <<gv_var, gv_info, gv_result>>
    /\ UNCHANGED orch_vars
    /\ UNCHANGED call_vars
    /\ UNCHANGED adapter_vars

\* grid_variable(var, grid_info)
CallGridVariable ==
    /\ gv_pc = "filled"
    /\ gv_result' = grid_variable(gv_var, gv_info)
    /\ gv_pc' = "gridded"
    /\ UNCHANGED <<gv_var, gv_info, gv_fill>>
    /\ UNCHANGED orch_vars
    /\ UNCHANGED call_vars
    /\ UNCHANGED adapter_vars

GridNext == CallVariableFillValue \/ CallGridVariable

SpecGrid == GridInit /\ [][GridNext]_vars

(***************************************************************************)
(* Properties of the scatter engine (checked under SpecGrid)               *)
(***************************************************************************)
\* The four fill value sources of a variable, in the order of the claim.
FillSources(var) ==
    << Get(var.encoding, "_FillValue"), Get(var.attrs, "_FillValue"),
       Get(var.attrs, "missing_value"),
       default_fill_value(storage_dtype(var)) >>

\* The first source of the sequence that is defined, None if there is none.
FirstDefined(sources) ==
    IF \A k \in 1 .. Len(sources) : sources[k] = None THEN None
    ELSE sources[CHOOSE k \in 1 .. Len(sources) :
                    /\ sources[k] # None
                    /\ \A j \in 1 .. k - 1 : sources[j] = None]

RemoveKey(d, key) == [k \in DOMAIN d \ {key} |-> d[k]]

\* The variable with its first n explicit sources removed.
WithoutSources(var, n) ==
    [var EXCEPT
        !.encoding = IF n >= 1 THEN RemoveKey(@, "_FillValue") ELSE @,
        !.attrs = IF n >= 3 THEN RemoveKey(RemoveKey(@, "_FillValue"),
                                           "missing_value")
                  ELSE IF n >= 2 THEN RemoveKey(@, "_FillValue")
                  ELSE @]

AllSourcesDefined(var) ==
    \A k \in 1 .. 3 : FillSources(var)[k] # None

\* C1: variable_fill_value returns the first defined source in the order
\* encoding _FillValue, attribute _FillValue, attribute missing_value, type
\* default of the storage dtype, for every combination of defined sources;
\* and removing the sources one at a time from a variable that defines them
\* all reveals them in that order.
C1_FillPrecedence ==
    gv_pc # "input" =>
        /\ gv_fill = FirstDefined(FillSources(gv_var))
        /\ AllSourcesDefined(gv_var) =>
              \A n \in 0 .. 3 :
                  variable_fill_value(WithoutSources(gv_var, n))
                      = FillSources(gv_var)[n + 1]

C1_Witness ==
    /\ gv_pc = "filled"
    /\ AllSourcesDefined(gv_var)
    /\ gv_fill = Get(gv_var.encoding, "_FillValue")
    /\ Cardinality({FillSources(gv_var)[k] : k \in 1 .. 4}) = 4

\* A sample is valid when it is not NaN (numeric variable), not the empty
\* text (text variable).
IsValidSample(var, i) ==
    IF var.dtype \in TextDtypes THEN var.data[i] # Str("")
    ELSE var.data[i] # NaN

Samples(var) == 1 .. Len(var.data)

ValidSamples(var) == {i \in Samples(var) : IsValidSample(var, i)}

InGrid(info, i) ==
    /\ info.src.rows[i] \in 0 .. info.target.GridHeight - 1
    /\ info.src.cols[i] \in 0 .. info.target.GridWidth - 1

CellOf(info, i) == <<info.src.rows[i], info.src.cols[i]>>

GridCells(info) ==
    (0 .. info.target.GridHeight - 1) \X (0 .. info.target.GridWidth - 1)

\* The valid samples addressed to a cell.
Addressing(var, info, cell) ==
    {i \in ValidSamples(var) : CellOf(info, i) = cell}

Max(S) == CHOOSE m \in S : \A x \in S : x <= m

\* The resolved fill value as an array of the storage dtype holds it.
StoredFill(var) ==
    IF variable_fill_value(var) = None /\ storage_dtype(var) \in TextDtypes
    THEN Str("None")
    ELSE variable_fill_value(var)

\* C2 as stated (for inputs whose valid samples all lie within the grid):
\* every valid sample is found at its cell, every cell no valid sample
\* addresses holds the resolved fill value, and the result has shape
\* (Grid Height, Grid Width).
C2_Original ==
    (gv_pc = "gridded" /\ \A i \in ValidSamples(gv_var) : InGrid(gv_info, i)) =>
        /\ gv_result.status = "ok"
        /\ gv_result.shape = <<GridHeight, GridWidth>>
        /\ \A i \in ValidSamples(gv_var) :
               InGrid(gv_info, i) =>
                   gv_result.cells[CellOf(gv_info, i)] = gv_var.data[i]
        /\ \A cell \in GridCells(gv_info) :
               Addressing(gv_var, gv_info, cell) = {} =>
                   gv_result.cells[cell] = variable_fill_value(gv_var)

\* C2 (amended): when every valid sample lies within the grid the result
\* has shape (Grid Height, Grid Width), every cell addressed by a valid
\* sample holds the value of the last such sample in sample order, and
\* every other cell holds the resolved fill value as the storage dtype
\* stores it (the text 'None' when a text variable resolves no fill value).
C2_ScatterCoverage ==
    (gv_pc = "gridded" /\ \A i \in ValidSamples(gv_var) : InGrid(gv_info, i)) =>
        /\ gv_result.status = "ok"
        /\ gv_result.shape = <<GridHeight, GridWidth>>
        /\ DOMAIN gv_result.cells = GridCells(gv_info)
        /\ \A cell \in GridCells(gv_info) :
               gv_result.cells[cell] =
                   IF Addressing(gv_var, gv_info, cell) = {}
                   THEN StoredFill(gv_var)
                   ELSE gv_var.data[Max(Addressing(gv_var, gv_info, cell))]

C2_Witness ==
    /\ gv_pc = "gridded"
    /\ gv_result.status = "ok"
    /\ \E cell \in GridCells(gv_info) : Addressing(gv_var, gv_info, cell) = {}
    /\ \E cell \in GridCells(gv_info) :
           /\ Cardinality(Addressing(gv_var, gv_info, cell)) = 1
           /\ gv_result.cells[cell] # StoredFill(gv_var)

C4_ValidMask ==
    (gv_pc = "gridded" /\ gv_result.status = "ok") =>
        /\ {gv_result.written[k] : k \in 1 .. Len(gv_result.written)}
               = {i \in Samples(gv_var) :
                     IF is_number(gv_var.dtype) THEN gv_var.data[i] # NaN
                     ELSE gv_var.data[i] # Str("")}
        /\ \A cell \in GridCells(gv_info) :
               \/ gv_result.cells[cell] = StoredFill(gv_var)
               \/ \E i \in ValidSamples(gv_var) :
                      /\ CellOf(gv_info, i) = cell
                      /\ gv_result.cells[cell] = gv_var.data[i]

C4_Witness ==
    /\ gv_pc = "gridded"
    /\ gv_result.status = "ok"
    /\ \E i \in Samples(gv_var) : ~IsValidSample(gv_var, i) /\ InGrid(gv_info, i)
    /\ \E i \in Samples(gv_var) : IsValidSample(gv_var, i)

\* C5: two or more valid samples addressed to one cell raise no error, and
\* the cell holds the value of the one that comes last in sample order.
C5_LastWriterWins ==
    gv_pc = "gridded" =>
        \A i, j \in ValidSamples(gv_var) :
            (/\ i < j
             /\ CellOf(gv_info, i) = CellOf(gv_info, j)
             /\ \A m \in ValidSamples(gv_var) : InGrid(gv_info, m)) =>
                /\ gv_result.status = "ok"
                /\ (\A m \in Addressing(gv_var, gv_info, CellOf(gv_info, j)) :
                        m <= j) =>
                       gv_result.cells[CellOf(gv_info, j)] = gv_var.data[j]

C5_Witness ==
    /\ gv_pc = "gridded"
    /\ gv_result.status = "ok"
    /\ \E i, j \in ValidSamples(gv_var) :
           /\ i < j
           /\ CellOf(gv_info, i) = CellOf(gv_info, j)
           /\ gv_var.data[i] # gv_var.data[j]
           /\ gv_result.cells[CellOf(gv_info, j)] = gv_var.data[j]

(***************************************************************************)
(* The collection registry (collections.py)                                *)
(***************************************************************************)
\* A path 'group/name' of the input tree is the pair <<group, name>>.
SMRD == "Soil_Moisture_Retrieval_Data"
SMRD_Polar == "Soil_Moisture_Retrieval_Data_Polar"
SMRD_3km == "Soil_Moisture_Retrieval_Data_3km"

STANDARD_LOCATIONS ==
    ("row" :> <<SMRD, "EASE_row_index">>) @@
    ("col" :> <<SMRD, "EASE_column_index">>)

GRIDS ==
    ("M03km" :> (("gpd" :> "EASE2_M03km.gpd") @@ ("epsg" :> "EPSG:6933"))) @@
    ("M09km" :> (("gpd" :> "EASE2_M09km.gpd") @@ ("epsg" :> "EPSG:6933"))) @@
    ("M36km" :> (("gpd" :> "EASE2_M36km.gpd") @@ ("epsg" :> "EPSG:6933"))) @@
    ("N09km" :> (("gpd" :> "EASE2_N09km.gpd") @@ ("epsg" :> "EPSG:6931")))

COLLECTION_INFORMATION ==
    ("SPL2SMP_E" :>
        [metadata |-> <<"Metadata">>,
         data_groups |->
            (SMRD :> (STANDARD_LOCATIONS @@ GRIDS["M09km"] @@
                      ("ExcludedScienceVariables" :> <<"tb_time_utc">>))) @@
            (SMRD_Polar :>
                     (("row" :> <<SMRD_Polar, "EASE_row_index">>) @@
                      ("col" :> <<SMRD_Polar, "EASE_column_index">>) @@
                      GRIDS["N09km"] @@
                      ("ExcludedScienceVariables" :> <<"tb_time_utc">>)))]) @@
    ("SPL2SMAP" :>
        [metadata |-> <<"Metadata">>,
         data_groups |->
            (SMRD :> (STANDARD_LOCATIONS @@ GRIDS["M09km"] @@
                      ("ExcludedScienceVariables" :>
                           <<"spacecraft_overpass_time_utc">>))) @@
            (SMRD_3km :>
                     (("row" :> <<SMRD_3km, "EASE_row_index_3km">>) @@
                      ("col" :> <<SMRD_3km, "EASE_column_index_3km">>) @@
                      GRIDS["M03km"] @@
                      ("ExcludedScienceVariables" :>
                           <<"spacecraft_overpass_time_utc">>)))]) @@
    ("SPL2SMA" :>
        [metadata |-> <<"Metadata">>,
         data_groups |->
            ("Ancillary_Data" :> (STANDARD_LOCATIONS @@ GRIDS["M03km"])) @@
            ("Radar_Data" :> (STANDARD_LOCATIONS @@ GRIDS["M03km"])) @@
            (SMRD :> (STANDARD_LOCATIONS @@ GRIDS["M03km"] @@
                      ("ExcludedScienceVariables" :>
                           <<"spacecraft_overpass_time_utc">>)))]) @@
    ("SPL2SMP" :>
        [metadata |-> <<"Metadata">>,
         data_groups |->
            (SMRD :> (STANDARD_LOCATIONS @@ GRIDS["M36km"] @@
                      ("ExcludedScienceVariables" :> <<"tb_time_utc">>) @@
                      ("FlattenedVariables" :>
                           <<"landcover_class",
                             "landcover_class_fraction">>)))])

get_all_information == COLLECTION_INFORMATION

\* The outcome of a call: the value returned, or the exception raised.
NoExc == [type |-> "", msg |-> <<>>]
Ok(value) == [exc |-> NoExc, val |-> value]
Raise(type, msg) == [exc |-> [type |-> type, msg |-> msg], val |-> <<>>]

\* set(a_list)
SetOf(list) == {list[k] : k \in 1 .. Len(list)}

get_collection_info(short) ==
    IF short \in DOMAIN get_all_information
    THEN Ok(get_all_information[short])
    ELSE Raise("InvalidCollectionError",
               <<"No collection information for ", short>>)

\* A variant that reports an unknown collection as an unknown group.
get_collection_group_info_group_error(short, group) ==
    LET lookup(collection) ==
            IF collection.exc = NoExc
               /\ group \in DOMAIN collection.val.data_groups
            THEN Ok(collection.val.data_groups[group])
            ELSE Raise("InvalidCollectionError",
                       <<"No group named ", group, " in ", short>>)
    IN  lookup(get_collection_info(short))

\* A variant that takes the row and column of every group from
\* STANDARD_LOCATIONS.
get_collection_group_info_standard(short, group) ==
    LET lookup(collection) ==
            IF collection.exc # NoExc THEN collection
            ELSE IF group \in DOMAIN collection.val.data_groups
            THEN Ok(STANDARD_LOCATIONS @@ collection.val.data_groups[group])
            ELSE Raise("InvalidCollectionError",
                       <<"No group named ", group, " in ", short>>)
    IN  lookup(get_collection_info(short))

\* A result a function binds to a local name is the argument of a local
\* operator below, so that it is computed where the code computes it.
get_collection_group_info(short, group) ==
    LET lookup(collection) ==
            IF collection.exc # NoExc THEN collection
            ELSE IF group \in DOMAIN collection.val.data_groups
            THEN Ok(collection.val.data_groups[group])
            ELSE Raise("InvalidCollectionError",
                       <<"No group named ", group, " in ", short>>)
    IN  lookup(get_collection_info(short))

\* A variant whose `except` catches every exception.
configured_set_except_all(info, key) ==
    IF info.exc # NoExc THEN Ok({})
    ELSE IF key \in DOMAIN info.val THEN Ok(SetOf(info.val[key]))
    ELSE Ok({})

\* info[key] as a set, or the empty set of `except KeyError`.
configured_set(info, key) ==
    IF info.exc # NoExc THEN info
    ELSE IF key \in DOMAIN info.val THEN Ok(SetOf(info.val[key]))
    ELSE Ok({})

\* A variant without the `except KeyError`.
get_excluded_science_variables_uncaught(short, group) ==
    LET excluded(info) ==
            IF info.exc # NoExc THEN info
            ELSE IF "ExcludedScienceVariables" \in DOMAIN info.val
            THEN Ok(SetOf(info.val["ExcludedScienceVariables"]))
            ELSE Raise("KeyError", <<"ExcludedScienceVariables">>)
    IN  excluded(get_collection_group_info(short, group))

get_excluded_science_variables(short, group) ==
    configured_set(get_collection_group_info(short, group),
                   "ExcludedScienceVariables")

\* The flatten candidates the registry configures for the group: the
\* lookup of get_flattened_variables before it is intersected with var_list.
configured_flattened_variables(short, group_name) ==
    configured_set(get_collection_group_info(short, group_name),
                   "FlattenedVariables")

\* A variant that returns every configured candidate.
get_flattened_variables_configured(short, group_name, var_list) ==
    configured_flattened_variables(short, group_name)

get_flattened_variables(short, group_name, var_list) ==
    LET present(configured) ==
            IF configured.exc # NoExc THEN configured
            ELSE Ok(configured.val \cap var_list)
    IN  present(configured_flattened_variables(short, group_name))

(***************************************************************************)
(* The input tree and the functions of grid.py that walk it                *)
(***************************************************************************)
\* A DataTree is a function from the names of its top-level groups to
\* nodes [data_vars |-> name -> variable, subtree |-> the rest of the node].
EmptyTree == [g \in {} |-> <<>>]

\* in_dt['group/name']
TreeGet(in_dt, path) ==
    IF path[1] \in DOMAIN in_dt /\ path[2] \in DOMAIN in_dt[path[1]].data_vars
    THEN Ok(in_dt[path[1]].data_vars[path[2]])
    ELSE Raise("KeyError", path)

get_collection_shortname(in_dt) ==
    LET short_of(ident) ==
            IF ident.exc # NoExc THEN ident
            ELSE Ok(ident.val.attrs["shortName"].s)
    IN  short_of(TreeGet(in_dt, <<"Metadata", "DatasetIdentification">>))

\* A variant with a static metadata list, the registry not consulted.
get_metadata_children_static(in_dt) == Ok(<<"Metadata">>)

get_metadata_children(in_dt) ==
    LET metadata_of(config) ==
            IF config.exc # NoExc THEN config ELSE Ok(config.val.metadata)
        children(short) ==
            IF short.exc # NoExc THEN short
            ELSE metadata_of(get_collection_info(short.val))
    IN  children(get_collection_shortname(in_dt))

\* A variant that leaves out the groups the registry does not name.
get_data_groups_registered(in_dt) ==
    LET registered(short) ==
            IF short \in DOMAIN COLLECTION_INFORMATION
            THEN DOMAIN COLLECTION_INFORMATION[short].data_groups ELSE {}
        data_groups(metadata, short) ==
            IF metadata.exc # NoExc THEN metadata
            ELSE Ok((DOMAIN in_dt \ SetOf(metadata.val))
                    \cap registered(short.val))
    IN  data_groups(get_metadata_children(in_dt),
                    get_collection_shortname(in_dt))

get_data_groups(in_dt) ==
    LET data_groups(metadata) ==
            IF metadata.exc # NoExc THEN metadata
            ELSE Ok(DOMAIN in_dt \ SetOf(metadata.val))
    IN  data_groups(get_metadata_children(in_dt))

\* A variant that copies the variables of a metadata group without the
\* rest of its subtree.
transfer_metadata_shallow(in_dt, out_data) ==
    LET copy(names) ==
            IF \E name \in names : name \notin DOMAIN in_dt
            THEN Raise("KeyError",
                       <<CHOOSE name \in names : name \notin DOMAIN in_dt>>)
            ELSE Ok([name \in DOMAIN out_data \cup names |->
                        IF name \in names
                        THEN [in_dt[name] EXCEPT !.subtree = ""]
                        ELSE out_data[name]])
        transfer(metadata) ==
            IF metadata.exc # NoExc THEN metadata
            ELSE copy(SetOf(metadata.val))
    IN  transfer(get_metadata_children(in_dt))

transfer_metadata(in_dt, out_data) ==
    LET copy(names) ==
            IF \E name \in names : name \notin DOMAIN in_dt
            THEN Raise("KeyError",
                       <<CHOOSE name \in names : name \notin DOMAIN in_dt>>)
            ELSE Ok([name \in DOMAIN out_data \cup names |->
                        IF name \in names THEN in_dt[name]
                        ELSE out_data[name]])
        transfer(metadata) ==
            IF metadata.exc # NoExc THEN metadata
            ELSE copy(SetOf(metadata.val))
    IN  transfer(get_metadata_children(in_dt))

\* row.astype(row.encoding.get('dtype', 'uint16')).data, as indices
astype_index(var) ==
    [i \in 1 .. Len(var.data) |->
        IF GetOr(var.encoding, "dtype", Str("uint16")).s = "uint16"
        THEN var.data[i].n % 65536
        ELSE var.data[i].n]

locate_row_and_column_for_group(in_dt, group, short) ==
    LET located(row, column) ==
            IF row.exc # NoExc THEN row
            ELSE IF column.exc # NoExc THEN column
            ELSE Ok([rows |-> astype_index(row.val),
                     cols |-> astype_index(column.val)])
        locate(info) ==
            IF info.exc # NoExc THEN info
            ELSE located(TreeGet(in_dt, info.val["row"]),
                         TreeGet(in_dt, info.val["col"]))
    IN  locate(get_collection_group_info(short, group))

\* The parameters parse_gpd_file reads from the named gpd file.  Origins,
\* map origins and the cell size are in tenths: -5 is the -0.5 of the
\* supported cell-centre convention; the file named by `bad` states another
\* origin.
parse_gpd_file(filename, bad) ==
    [GridHeight |-> GridHeight, GridWidth |-> GridWidth,
     GridMapOriginColumn |-> IF filename = bad THEN 0 ELSE -5,
     GridMapOriginRow |-> -5,
     MapOriginX |-> -50000, MapOriginY |-> 50000,
     GridMapUnitsPerCell |-> 10000]

get_target_grid_information(group, short, bad) ==
    LET target(info) ==
            IF info.exc # NoExc THEN info
            ELSE Ok([wkt |-> info.val["epsg"]] @@
                    parse_gpd_file(info.val["gpd"], bad))
    IN  target(get_collection_group_info(short, group))

get_grid_information(in_dt, group, short, bad) ==
    LET information(src, target) ==
            IF src.exc # NoExc THEN src
            ELSE IF target.exc # NoExc THEN target
            ELSE Ok([src |-> src.val, target |-> target.val])
    IN  information(locate_row_and_column_for_group(in_dt, group, short),
                    get_target_grid_information(group, short, bad))

\* A variant that subtracts no excluded variable.
get_target_variables_all(in_dt, group, short) ==
    Ok(DOMAIN in_dt[group].data_vars)

get_target_variables(in_dt, group, short) ==
    LET targets(excluded) ==
            IF excluded.exc # NoExc THEN excluded
            ELSE Ok(DOMAIN in_dt[group].data_vars \ excluded.val)
    IN  targets(get_excluded_science_variables(short, group))

\* A variant that leaves the flatten candidates in the normal set.
separate_2d_variables_keep(group_name, short, var_list) ==
    LET separate(vars_to_flatten) ==
            IF vars_to_flatten.exc # NoExc THEN vars_to_flatten
            ELSE Ok(<<var_list, vars_to_flatten.val \cap var_list>>)
    IN  separate(configured_flattened_variables(short, group_name))

\* grid.py calls get_flattened_variables(short_name, str(in_dt.name)) with no
\* var_list and intersects the registry's candidates with var_list itself.
separate_2d_variables(group_name, short, var_list) ==
    LET separate(vars_to_flatten) ==
            IF vars_to_flatten.exc # NoExc THEN vars_to_flatten
            ELSE Ok(<<var_list \ vars_to_flatten.val,
                      vars_to_flatten.val \cap var_list>>)
    IN  separate(configured_flattened_variables(short, group_name))

\* f'{var_name}_{idx + 1}'
component_name(var_name, k) == var_name \o "_" \o ToString(k)

\* A variant that takes the column after the one asked for.
component_next(multi_var, k) ==
    [data |-> [i \in 1 .. Len(multi_var.data) |->
                  multi_var.data[i][(k % 3) + 1]],
     shape |-> <<Len(multi_var.data)>>,
     dtype |-> multi_var.dtype,
     encoding |-> MkDict({}),
     attrs |-> MkDict({})]

\* DataArray(multi_var.data[:, idx]): the data only, no attrs, no encoding.
component(multi_var, k) ==
    [data |-> [i \in 1 .. Len(multi_var.data) |-> multi_var.data[i][k]],
     shape |-> <<Len(multi_var.data)>>,
     dtype |-> multi_var.dtype,
     encoding |-> MkDict({}),
     attrs |-> MkDict({})]

split_2d_variable(node, var_name) ==
    LET split(multi_var, names) ==
            IF Len(multi_var.shape) # 2 \/ multi_var.shape[2] # 3
            THEN Raise("InvalidVariableShape",
                       <<"Variable ", var_name, " must have shape (N, 3)">>)
            ELSE Ok([node EXCEPT !.data_vars =
                  [name \in (DOMAIN node.data_vars \ {var_name}) \cup names |->
                      IF name \in names
                      THEN component(multi_var,
                               CHOOSE k \in 1 .. 3 :
                                   component_name(var_name, k) = name)
                      ELSE node.data_vars[name]]])
    IN  split(node.data_vars[var_name],
              {component_name(var_name, k) : k \in 1 .. 3})

\* A variant that also resets the row indices held by the group.
RECURSIVE flatten_2d_data_resetting(_, _)
flatten_2d_data_resetting(node, variables_to_flatten) ==
    LET reset(var) == [var EXCEPT !.data = [i \in DOMAIN var.data |-> Num(0)]]
        continue(split) ==
            IF split.exc # NoExc THEN split
            ELSE flatten_2d_data_resetting(split.val,
                                           Tail(variables_to_flatten))
    IN  IF variables_to_flatten = <<>>
        THEN Ok([node EXCEPT !.data_vars =
                    [name \in DOMAIN node.data_vars |->
                        IF name = "EASE_row_index"
                        THEN reset(node.data_vars[name])
                        ELSE node.data_vars[name]]])
        ELSE continue(split_2d_variable(node, Head(variables_to_flatten)))

\* The loop over variables_to_flatten, in the order the set is iterated.
RECURSIVE flatten_2d_data(_, _)
flatten_2d_data(node, variables_to_flatten) ==
    LET continue(split) ==
            IF split.exc # NoExc THEN split
            ELSE flatten_2d_data(split.val, Tail(variables_to_flatten))
    IN  IF variables_to_flatten = <<>> THEN Ok(node)
        ELSE continue(split_2d_variable(node, Head(variables_to_flatten)))

\* The orders in which a set may be iterated.
Orders(S) ==
    {order \in [1 .. Cardinality(S) -> S] :
        \A i, j \in 1 .. Cardinality(S) : order[i] = order[j] => i = j}

\* A variant that looks at the origin column only.
validate_gpd_style_column_only(target) ==
    IF target.GridMapOriginColumn # -5
    THEN Raise("InvalidGPDError", <<"Invalid grid definition">>)
    ELSE Ok(None)

\* validate_gpd_style(target_info): only the cell-centre convention, both
\* origins -0.5, is accepted.
validate_gpd_style(target) ==
    IF target.GridMapOriginColumn # -5 \/ target.GridMapOriginRow # -5
    THEN Raise("InvalidGPDError", <<"Invalid grid definition">>)
    ELSE Ok(None)

\* Geotransform(top_left_x, pixel_width, row_rotation, top_left_y,
\* column_rotation, pixel_height); lengths in tenths.
Geotransform(top_left_x, pixel_width, row_rotation, top_left_y, column_rotation, pixel_height) ==
    [top_left_x |-> top_left_x, pixel_width |-> pixel_width,
     row_rotation |-> row_rotation, top_left_y |-> top_left_y,
     column_rotation |-> column_rotation, pixel_height |-> pixel_height]

\* geotransform_from_target_info(target_info): north-up, no rotation, the
\* top left corner at the map origin.
geotransform_from_target_info(target) ==
    LET build(valid) ==
            IF valid.exc # NoExc THEN valid
            ELSE Ok(Geotransform(target.MapOriginX,
                                 target.GridMapUnitsPerCell, 0,
                                 target.MapOriginY, 0,
                                 -target.GridMapUnitsPerCell))
    IN  build(validate_gpd_style(target))

\* A variant that gives the corner of the cell instead of its centre.
col_row_to_xy_corner(gt, col, row) ==
    <<gt.top_left_x + col * gt.pixel_width + row * gt.row_rotation,
      gt.top_left_y + col * gt.column_rotation + row * gt.pixel_height>>

\* Geotransform.col_row_to_xy(col, row): the centre of the cell, half a
\* cell from its corner.  The column and row are adjusted in tenths
\* (10 * col + 5), so the products are divided by 10.
col_row_to_xy(gt, col, row) ==
    LET adj_col == 10 * col + 5
        adj_row == 10 * row + 5
    IN  <<gt.top_left_x
            + (adj_col * gt.pixel_width + adj_row * gt.row_rotation) \div 10,
          gt.top_left_y
            + (adj_col * gt.column_rotation + adj_row * gt.pixel_height)
              \div 10>>

\* compute_dims(grid_info['target']): the x and y dimension arrays,
\* refused when the origin convention is not (-0.5, -0.5).
compute_dims(target) ==
    LET dims(gt) ==
            IF gt.exc # NoExc THEN gt
            ELSE Ok([x_dim |->
                         [dims |-> <<"x-dim">>, size |-> target.GridWidth,
                          data |-> [i \in 1 .. target.GridWidth |->
                                       col_row_to_xy(gt.val, i - 1, 0)[1]]],
                     y_dim |->
                         [dims |-> <<"y-dim">>, size |-> target.GridHeight,
                          data |-> [j \in 1 .. target.GridHeight |->
                                       col_row_to_xy(gt.val, 0, j - 1)[2]]]])
    IN  dims(geotransform_from_target_info(target))

\* create_crs(grid_info['target']): the grid mapping variable.
create_crs(target) ==
    [dims |-> <<>>, size |-> 0, data |-> <<>>, crs_wkt |-> target.wkt]

Bool(b) == [k |-> "bool", n |-> IF b THEN 1 ELSE 0, s |-> ""]

\* A variant that compresses every dtype but object.
is_compressible_text(dtype) == ~(dtype \in ObjectDtypes)

is_compressible(dtype) == ~(dtype \in TextDtypes \/ dtype \in ObjectDtypes)

\* A variant in which the attributes of the source win over grid_mapping.
prepare_variable_source_mapping(var, info) ==
    LET annotate(grid_data) ==
            IF grid_data.status # "ok" THEN Raise(grid_data.status, <<>>)
            ELSE Ok([grid |-> grid_data,
                     attrs |-> var.attrs @@ ("grid_mapping" :> Str("crs")),
                     encoding |->
                         ("_FillValue" :> variable_fill_value(var)) @@
                         ("coordinates" :> Get(var.encoding, "coordinates")) @@
                         (IF is_compressible(grid_data.dtype)
                          THEN ("zlib" :> Bool(TRUE)) @@ ("complevel" :> Num(6))
                          ELSE MkDict({}))])
    IN  annotate(grid_variable(var, info))

prepare_variable(var, info) ==
    LET annotate(grid_data) ==
            IF grid_data.status # "ok" THEN Raise(grid_data.status, <<>>)
            ELSE Ok([grid |-> grid_data,
                     attrs |-> ("grid_mapping" :> Str("crs")) @@ var.attrs,
                     encoding |->
                         ("_FillValue" :> variable_fill_value(var)) @@
                         ("coordinates" :> Get(var.encoding, "coordinates")) @@
                         (IF is_compressible(grid_data.dtype)
                          THEN ("zlib" :> Bool(TRUE)) @@ ("complevel" :> Num(6))
                          ELSE MkDict({}))])
    IN  annotate(grid_variable(var, info))

(***************************************************************************)
(* Spec: process_input over a bounded family of input trees                *)
(***************************************************************************)
ShortNames == DOMAIN COLLECTION_INFORMATION \cup {"MADEUP_SHORTNAME"}

\* A science variable: float32, its first sample a decoded fill value.
ScienceVariable ==
    [data |-> [i \in 1 .. NSamples |-> IF i = 1 THEN NaN ELSE Num(i)],
     shape |-> <<NSamples>>,
     dtype |-> "float32",
     encoding |-> MkDict({<<"_FillValue", Num(-9999)>>,
                          <<"dtype", Str("float32")>>,
                          <<"coordinates", Str("/latitude /longitude")>>}),
     attrs |-> MkDict({<<"long_name", Str("albedo")>>})]

\* A UTC time text variable, the kind the exclusion lists name.
TextVariable ==
    [data |-> [i \in 1 .. NSamples |-> Str(Letters[i])],
     shape |-> <<NSamples>>,
     dtype |-> "<U24",
     encoding |-> MkDict({}),
     attrs |-> MkDict({<<"long_name", Str("time")>>})]

\* A row or column index variable holding the given indices.
IndexVariable(indices) ==
    [data |-> [i \in 1 .. NSamples |-> Num(indices[i])],
     shape |-> <<NSamples>>,
     dtype |-> "float32",
     encoding |-> MkDict({<<"_FillValue", Num(65534)>>,
                          <<"dtype", Str("uint16")>>}),
     attrs |-> MkDict({<<"long_name", Str("index")>>})]

\* A flatten candidate of shape (N, width).
WideVariable(width) ==
    [data |-> [i \in 1 .. NSamples |-> [k \in 1 .. width |-> Num(10 * k + i)]],
     shape |-> <<NSamples, width>>,
     dtype |-> "float32",
     encoding |-> MkDict({<<"_FillValue", Num(254)>>,
                          <<"dtype", Str("float32")>>}),
     attrs |-> MkDict({<<"long_name", Str("landcover")>>})]

\* The indices of a dimension of the size; "out_of_range" puts the last
\* sample one past the last cell.
Indices(size, index_case) ==
    [i \in 1 .. NSamples |->
        IF index_case = "out_of_range" /\ i = NSamples THEN size
        ELSE (i - 1) % size]

IndexCases == {"ok", "no_row", "no_col", "out_of_range"}
WideCases == {"absent", "n3", "n4"}

ConfiguredExcluded(short, group) ==
    SetOf(GetOr(COLLECTION_INFORMATION[short].data_groups[group],
                "ExcludedScienceVariables", <<>>))

ConfiguredFlattened(short, group) ==
    SetOf(GetOr(COLLECTION_INFORMATION[short].data_groups[group],
                "FlattenedVariables", <<>>))

\* The row/column variables the registry places in the group.
IndexNames(short, group, index_case) ==
    LET groups == COLLECTION_INFORMATION[short].data_groups
    IN  {groups[g]["row"][2] :
            g \in {h \in DOMAIN groups : groups[h]["row"][1] = group
                                         /\ index_case # "no_row"}}
        \cup
        {groups[g]["col"][2] :
            g \in {h \in DOMAIN groups : groups[h]["col"][1] = group
                                         /\ index_case # "no_col"}}

\* The ways a data group of a collection is drawn.
GroupCases(short, group) ==
    [index : IF IndexNames(short, group, "ok") = {} THEN {"ok"}
             ELSE IndexCases,
     excluded : IF ConfiguredExcluded(short, group) = {} THEN {FALSE}
                ELSE BOOLEAN,
     wide : [ConfiguredFlattened(short, group) -> WideCases]]

GroupNode(short, group, case) ==
    LET groups == COLLECTION_INFORMATION[short].data_groups
        index_names == IndexNames(short, group, case.index)
        row_names == {groups[g]["row"][2] : g \in DOMAIN groups}
        excluded == IF case.excluded THEN ConfiguredExcluded(short, group)
                    ELSE {}
        wide == {name \in DOMAIN case.wide : case.wide[name] # "absent"}
        names == {"albedo"} \cup index_names \cup excluded \cup wide
    IN  [data_vars |->
            [name \in names |->
                IF name \in wide
                THEN WideVariable(IF case.wide[name] = "n3" THEN 3 ELSE 4)
                ELSE IF name \in excluded THEN TextVariable
                ELSE IF name \in index_names
                THEN IndexVariable(Indices(IF name \in row_names
                                           THEN GridHeight ELSE GridWidth,
                                           case.index))
                ELSE ScienceVariable],
         subtree |-> ""]

MetadataNode(short) ==
    [data_vars |->
        ("DatasetIdentification" :>
            [data |-> <<>>, shape |-> <<>>, dtype |-> "object",
             encoding |-> MkDict({}),
             attrs |-> MkDict({<<"shortName", Str(short)>>})]),
     subtree |-> "Metadata/*"]

\* A group the registry does not know.
ExtraGroup == "Extra_Data"

\* The input trees: the Metadata group (or none), the data groups of the
\* collection each drawn from its cases, and possibly an unregistered group.
InputTrees ==
    UNION {
        LET groups == IF short \in DOMAIN COLLECTION_INFORMATION
                      THEN DOMAIN COLLECTION_INFORMATION[short].data_groups
                      ELSE {}
            registered == IF short \in DOMAIN COLLECTION_INFORMATION
                          THEN short ELSE "SPL2SMP"
            choices == {c \in [groups -> UNION {GroupCases(registered, g) :
                                                g \in groups}] :
                           \A g \in groups : c[g] \in GroupCases(registered, g)}
        IN  { [name \in groups \cup (IF metadata THEN {"Metadata"} ELSE {})
                            \cup (IF extra THEN {ExtraGroup} ELSE {}) |->
                  IF name = "Metadata" THEN MetadataNode(short)
                  ELSE IF name = ExtraGroup
                  THEN GroupNode("SPL2SMP", SMRD,
                                 [index |-> "ok", excluded |-> FALSE,
                                  wide |-> [n \in ConfiguredFlattened("SPL2SMP", SMRD)
                                                |-> "absent"]])
                  ELSE GroupNode(registered, name, c[name])] :
              c \in choices, metadata \in BOOLEAN, extra \in BOOLEAN } :
        short \in ShortNames }

\* process_input is called with an input tree; the scatter engine of
\* SpecGrid is not running.
Init ==
    /\ in_file \in InputTrees
    /\ in_data = in_file
    /\ gpd_bad \in {"", "EASE2_M09km.gpd"}
    /\ pc = "start"
    /\ out_log = <<>>
    /\ todo_groups = {}
    /\ cur_group = ""
    /\ todo_vars = {}
    /\ grid_info = <<>>
    /\ short_name = ""
    /\ error = NoExc
    /\ reads = {}
    /\ gv_var = <<>>
    /\ gv_info = <<>>
    /\ gv_pc = "idle"
    /\ gv_fill = None
    /\ gv_result = NotCalled
    /\ call = <<>>
    /\ call_pc = "idle"
    /\ ret = <<>>
    /\ arg_after = <<>>
    /\ AdapterIdle

\* A variant that records the exception and goes on with the next group.
Abort_and_continue(exc) ==
    /\ pc' = "groups"
    /\ error' = exc

\* An exception leaves process_input: nothing catches it.
Abort(exc) ==
    /\ pc' = "failed"
    /\ error' = exc

\* A variant that opens the output file with mode 'w' on every call.
WriteCall_truncating(mode, group, entries, children) ==
    [mode |-> "w", group |-> group, entries |-> entries,
     children |-> children]

\* One to_netcdf(output_file, mode) call.
WriteCall(mode, group, entries, children) ==
    [mode |-> mode, group |-> group, entries |-> entries,
     children |-> children]

ReadsOf(group, paths) == {[group |-> group, path |-> p] : p \in paths}

\* Lines 35-43: the short name, the metadata write, the data group names.
TransferMetadata ==
    LET Step(short, root_dt, data_group_names) ==
            IF short.exc # NoExc
            THEN Abort(short.exc)
                 /\ UNCHANGED <<out_log, todo_groups, short_name>>
            ELSE IF root_dt.exc # NoExc
            THEN Abort(root_dt.exc)
                 /\ short_name' = short.val
                 /\ UNCHANGED <<out_log, todo_groups>>
            ELSE /\ short_name' = short.val
                 /\ out_log' = Append(out_log,
                                   WriteCall("w", "/", EmptyTree, root_dt.val))
                 /\ IF data_group_names.exc # NoExc
                    THEN Abort(data_group_names.exc) /\ UNCHANGED todo_groups
                    ELSE /\ todo_groups' = data_group_names.val
                         /\ pc' = "groups"
                         /\ UNCHANGED error
    IN  /\ pc = "start"
        /\ Step(get_collection_shortname(in_data),
                transfer_metadata(in_data, EmptyTree),
                get_data_groups(in_data))
        /\ reads' = reads \cup
                    ReadsOf("/", {<<"Metadata", "DatasetIdentification">>})
        /\ UNCHANGED <<in_file, in_data, gpd_bad, cur_group, todo_vars,
                       grid_info>>
        /\ UNCHANGED grid_vars
        /\ UNCHANGED call_vars
        /\ UNCHANGED adapter_vars

\* The in_data[...] paths lines 48-55 read for the group, up to the step
\* that raised: the row, the column, the flatten candidates in order.
GroupReads(group, info, src, flat_order) ==
    ReadsOf(group,
        (IF info.exc = NoExc THEN {info.val["row"]} ELSE {})
        \cup (IF info.exc = NoExc
                 /\ TreeGet(in_data, info.val["row"]).exc = NoExc
              THEN {info.val["col"]} ELSE {})
        \cup (IF src.exc = NoExc
              THEN {<<group, flat_order[k]>> :
                        k \in {j \in 1 .. Len(flat_order) :
                                 \A m \in 1 .. j - 1 :
                                    split_2d_variable(in_data[group],
                                        flat_order[m]).exc = NoExc}}
              ELSE {}))

\* The orders in which flatten_2d_data may iterate the group's candidates.
FlattenOrders(group) ==
    LET orders(separated) ==
            IF separated.exc # NoExc THEN {<<>>}
            ELSE Orders(separated.val[2])
        candidates(targets) ==
            IF targets.exc # NoExc THEN {<<>>}
            ELSE orders(separate_2d_variables(group, short_name, targets.val))
    IN  candidates(get_target_variables(in_data, group, short_name))

\* Lines 45-63: one iteration of the loop over data_group_names, up to the
\* append of the group's crs, x-dim and y-dim.
ProcessGroup(group_name, flat_order) ==
    LET Write(information, vars_to_grid, flat, dims) ==
            /\ in_data' = [in_data EXCEPT ![group_name] = flat]
            /\ IF dims.exc # NoExc
               THEN /\ Abort(dims.exc)
                    /\ UNCHANGED <<out_log, todo_vars, grid_info>>
               ELSE /\ grid_info' = information
                    /\ todo_vars' = vars_to_grid
                    /\ out_log' = Append(out_log,
                           WriteCall("a", group_name,
                               ("crs" :> create_crs(information.target))
                               @@ ("x-dim" :> dims.val.x_dim)
                               @@ ("y-dim" :> dims.val.y_dim),
                               EmptyTree))
                    /\ pc' = IF vars_to_grid = {} THEN "groups"
                             ELSE "variables"
                    /\ UNCHANGED error
        Stop(exc) ==
            /\ Abort(exc)
            /\ UNCHANGED <<in_data, out_log, todo_vars, grid_info>>
        Flatten(information, separated, flat) ==
            IF separated.exc # NoExc THEN Stop(separated.exc)
            ELSE IF flat.exc # NoExc THEN Stop(flat.exc)
            ELSE Write(information, separated.val[1], flat.val,
                       compute_dims(information.target))
        Separate(information, targets) ==
            IF targets.exc # NoExc THEN Stop(targets.exc)
            ELSE Flatten(information,
                         separate_2d_variables(group_name, short_name,
                                               targets.val),
                         flatten_2d_data(in_data[group_name], flat_order))
        Step(info, grid_information) ==
            /\ reads' = reads \cup GroupReads(group_name, info,
                                              grid_information, flat_order)
            /\ IF grid_information.exc # NoExc
               THEN Stop(grid_information.exc)
               ELSE Separate(grid_information.val,
                             get_target_variables(in_data, group_name,
                                                  short_name))
    IN  /\ pc = "groups"
        /\ group_name \in todo_groups
        /\ cur_group' = group_name
        /\ todo_groups' = todo_groups \ {group_name}
        /\ Step(get_collection_group_info(short_name, group_name),
                get_grid_information(in_data, group_name, short_name, gpd_bad))
        /\ UNCHANGED <<in_file, gpd_bad, short_name>>
        /\ UNCHANGED grid_vars
        /\ UNCHANGED call_vars
        /\ UNCHANGED adapter_vars

\* Lines 65-70: one iteration of the loop over vars_to_grid.
ProcessVariable(var_name) ==
    LET Step(prepared) ==
            IF prepared.exc # NoExc
            THEN Abort(prepared.exc) /\ UNCHANGED out_log
            ELSE /\ out_log' = Append(out_log,
                        WriteCall("a", cur_group,
                                  var_name :> prepared.val, EmptyTree))
                 /\ pc' = IF todo_vars = {var_name} THEN "groups"
                          ELSE "variables"
                 /\ UNCHANGED error
    IN  /\ pc = "variables"
        /\ var_name \in todo_vars
        /\ reads' = reads \cup ReadsOf(cur_group, {<<cur_group, var_name>>})
        /\ todo_vars' = todo_vars \ {var_name}
        /\ Step(prepare_variable(in_data[cur_group].data_vars[var_name],
                                 grid_info))
        /\ UNCHANGED <<in_file, in_data, gpd_bad, todo_groups, cur_group,
                       grid_info, short_name>>
        /\ UNCHANGED grid_vars
        /\ UNCHANGED call_vars
        /\ UNCHANGED adapter_vars

\* A variant that leaves the loop over data_group_names at any iteration.
Return_early ==
    /\ pc = "groups"
    /\ pc' = "done"
    /\ UNCHANGED <<in_file, in_data, gpd_bad, out_log, todo_groups,
                   cur_group, todo_vars, grid_info, short_name, error, reads>>
    /\ UNCHANGED grid_vars
    /\ UNCHANGED call_vars
    /\ UNCHANGED adapter_vars

\* The loop over data_group_names is exhausted: process_input returns.
Return ==
    /\ pc = "groups"
    /\ todo_groups = {}
    /\ pc' = "done"
    /\ UNCHANGED <<in_file, in_data, gpd_bad, out_log, todo_groups,
                   cur_group, todo_vars, grid_info, short_name, error, reads>>
    /\ UNCHANGED grid_vars
    /\ UNCHANGED call_vars
    /\ UNCHANGED adapter_vars

Next ==
    \/ TransferMetadata
    \/ \E group_name \in todo_groups :
           \E flat_order \in FlattenOrders(group_name) :
               ProcessGroup(group_name, flat_order)
    \/ \E var_name \in todo_vars : ProcessVariable(var_name)
    \/ Return

Spec == Init /\ [][Next]_vars

\* process_input runs in one thread and each of its steps returns or
\* raises: a step that can be taken is taken.
SpecLive == Init /\ [][Next]_vars /\ WF_vars(Next)

(***************************************************************************)
(* Properties of process_input (checked under Spec)                        *)
(***************************************************************************)
CoordinateNames == {"crs", "x-dim", "y-dim"}

\* The data groups of the input file.
InputDataGroups == DOMAIN in_file \ {"Metadata"}

\* The appends made for the group, and the names they wrote.
WritesOf(group) ==
    {k \in 2 .. Len(out_log) : out_log[k].group = group}

Written(group) ==
    UNION {DOMAIN out_log[k].entries : k \in WritesOf(group)}

\* The appends that wrote the name under the group.
WritesOfName(group, name) ==
    {k \in WritesOf(group) : name \in DOMAIN out_log[k].entries}

\* C6: the first write is the one mode 'w' write and holds the metadata
\* groups; it is made before any data group is processed; every later write
\* is a mode 'a' append of one data group's entries; a group's crs, x-dim
\* and y-dim are appended, together, before any of its gridded variables.
C6_WriteOrder ==
    /\ pc \in {"groups", "variables", "done"} => Len(out_log) >= 1
    /\ Len(out_log) >= 1 =>
           /\ out_log[1].mode = "w"
           /\ out_log[1].group = "/"
           /\ DOMAIN out_log[1].children = {"Metadata"}
           /\ out_log[1].children["Metadata"] = in_file["Metadata"]
    /\ \A k \in 2 .. Len(out_log) :
           /\ out_log[k].mode = "a"
           /\ out_log[k].group \in InputDataGroups
           /\ out_log[k].children = EmptyTree
           /\ \/ DOMAIN out_log[k].entries = CoordinateNames
              \/ /\ DOMAIN out_log[k].entries \cap CoordinateNames = {}
                 /\ \E j \in 2 .. k - 1 :
                        /\ out_log[j].group = out_log[k].group
                        /\ DOMAIN out_log[j].entries = CoordinateNames

C6_Witness ==
    /\ pc = "done"
    /\ \E g, h \in InputDataGroups :
           /\ g # h
           /\ Written(g) \ CoordinateNames # {}
           /\ Written(h) \ CoordinateNames # {}

\* What makes a step of process_input fail, read off the input and the
\* registry.
HasVariable(path) ==
    /\ path[1] \in DOMAIN in_data
    /\ path[2] \in DOMAIN in_data[path[1]].data_vars

MetadataDefect ==
    \/ "Metadata" \notin DOMAIN in_file
    \/ in_file["Metadata"].data_vars["DatasetIdentification"]
           .attrs["shortName"].s \notin DOMAIN COLLECTION_INFORMATION

GroupDefect(group) ==
    \/ group \notin DOMAIN COLLECTION_INFORMATION[short_name].data_groups
    \/ LET info == COLLECTION_INFORMATION[short_name].data_groups[group]
       IN  \/ ~HasVariable(info["row"])
           \/ ~HasVariable(info["col"])
           \/ info["gpd"] = gpd_bad
           \/ \E name \in (ConfiguredFlattened(short_name, group)
                           \cap DOMAIN in_data[group].data_vars)
                          \ ConfiguredExcluded(short_name, group) :
                  in_data[group].data_vars[name].shape # <<NSamples, 3>>

VariableDefect(group, name) ==
    \E i \in 1 .. NSamples :
        /\ IsValidSample(in_data[group].data_vars[name], i)
        /\ \/ grid_info.src.rows[i] \notin 0 .. GridHeight - 1
           \/ grid_info.src.cols[i] \notin 0 .. GridWidth - 1

\* C7: a step that meets an unknown collection, an unknown group, a missing
\* row or column variable, an invalid grid parameter convention, a wrongly
\* shaped flatten candidate or an index outside the grid ends process_input
\* with the error; the failing step writes nothing, and after it no step
\* is taken: nothing is retried, processed or written.
C7_FailureAborts ==
    [][ /\ pc # "failed"
        /\ pc' = "failed" => (error' # NoExc /\ out_log' = out_log)
        /\ pc' # "failed" => error' = NoExc
        /\ (pc = "start" /\ MetadataDefect) => pc' = "failed"
        /\ (pc = "groups" /\ todo_groups' # todo_groups
            /\ GroupDefect(cur_group')) => pc' = "failed"
        /\ (pc = "variables"
            /\ \E name \in todo_vars \ todo_vars' :
                   VariableDefect(cur_group, name)) => pc' = "failed"
      ]_vars

C7_Witness ==
    /\ pc = "failed"
    /\ error.type = "InvalidVariableShape" \/ error.type = "InvalidGPDError"
           \/ error.type = "KeyError" \/ error.type = "InvalidCollectionError"
    /\ Len(out_log) >= 3
    /\ todo_groups # {}

\* C8 as stated: every variable read for a data group belongs to that group.
C8_Original ==
    \A r \in reads : r.group # "/" => r.path[1] = r.group

\* C8 (amended): the science variables read for a data group belong to
\* that group, and so do its row and column index variables, except for the
\* Ancillary_Data and Radar_Data groups of SPL2SMA, whose row and column
\* indices are read from Soil_Moisture_Retrieval_Data.
C8_GroupReads ==
    \A r \in reads :
        r.group # "/" =>
            \/ r.path[1] = r.group
            \/ /\ short_name = "SPL2SMA"
               /\ r.group \in {"Ancillary_Data", "Radar_Data"}
               /\ r.path \in {<<SMRD, "EASE_row_index">>,
                              <<SMRD, "EASE_column_index">>}

C8_Witness ==
    /\ pc = "done"
    /\ \E r \in reads : r.group = "Radar_Data" /\ r.path[1] = SMRD
    /\ \E r \in reads : r.group = "Radar_Data" /\ r.path[1] = "Radar_Data"

\* The flatten candidates the input file holds in the group, the excluded
\* ones left out.
FlattenCandidates(group) ==
    (ConfiguredFlattened(short_name, group) \cap DOMAIN in_file[group].data_vars)
    \ ConfiguredExcluded(short_name, group)

\* C9 as stated: when process_input is done, the three components of every
\* flatten candidate of a group are in the output under the group and the
\* combined variable is not.
C9_ComponentsWritten ==
    pc = "done" =>
        \A g \in InputDataGroups :
            \A name \in FlattenCandidates(g) :
                /\ name \notin Written(g)
                /\ \A k \in 1 .. 3 : component_name(name, k) \in Written(g)

\* A gridded entry of the output.
IsGridded(entry) ==
    /\ entry.grid.dims = <<"y-dim", "x-dim">>
    /\ entry.grid.shape = <<GridHeight, GridWidth>>
    /\ entry.attrs["grid_mapping"] = Str("crs")

\* The group's output is crs, x-dim, y-dim and one gridded entry for each
\* of the names.
GroupOutputIs(group, names) ==
    /\ Written(group) = CoordinateNames \cup names
    /\ \A name \in names :
           /\ Cardinality(WritesOfName(group, name)) = 1
           /\ \A k \in WritesOfName(group, name) :
                  IsGridded(out_log[k].entries[name])

Whitespace == {" ", "\t", "\n"}

Digits == {"0", "1", "2", "3", "4", "5", "6", "7", "8", "9"}

DigitValue ==
    [d \in Digits |->
        CASE d = "0" -> 0 [] d = "1" -> 1 [] d = "2" -> 2 [] d = "3" -> 3
          [] d = "4" -> 4 [] d = "5" -> 5 [] d = "6" -> 6 [] d = "7" -> 7
          [] d = "8" -> 8 [] d = "9" -> 9]

RECURSIVE lstrip(_)
lstrip(text) ==
    IF text # <<>> /\ Head(text) \in Whitespace
    THEN lstrip(Tail(text)) ELSE text

RECURSIVE rstrip(_)
rstrip(text) ==
    IF text # <<>> /\ text[Len(text)] \in Whitespace
    THEN rstrip(SubSeq(text, 1, Len(text) - 1)) ELSE text

\* str.strip()
strip(text) == rstrip(lstrip(text))

\* `ch in text`
Contains(text, ch) == \E i \in 1 .. Len(text) : text[i] = ch

\* text.find(ch), counted from 1; 0 when ch is not in text.
Find(text, ch) ==
    IF Contains(text, ch)
    THEN CHOOSE i \in 1 .. Len(text) :
             /\ text[i] = ch
             /\ \A j \in 1 .. i - 1 : text[j] # ch
    ELSE 0

\* text.split(ch, 1) of a text that contains ch.
split_once(text, ch) ==
    <<SubSeq(text, 1, Find(text, ch) - 1),
      SubSeq(text, Find(text, ch) + 1, Len(text))>>

\* A variant that keeps the whole text.
first_field_whole(text, ch) == text

\* text.split(ch)[0]
first_field(text, ch) ==
    IF Contains(text, ch) THEN SubSeq(text, 1, Find(text, ch) - 1) ELSE text

\* What convert_value returns: a str, an np.long or an np.float64.  A
\* number is its sign, its digits without leading zeros and the count of
\* those after the point.
PyStr(text) ==
    [k |-> "str", neg |-> FALSE, digits |-> <<>>, scale |-> 0,
     text |-> text]

PyNumber(kind, neg, digits, scale) ==
    [k |-> kind, neg |-> neg /\ digits # <<>>, digits |-> digits,
     scale |-> scale, text |-> <<>>]

RECURSIVE StripLeadingZeros(_)
StripLeadingZeros(digits) ==
    IF digits # <<>> /\ Head(digits) = "0"
    THEN StripLeadingZeros(Tail(digits)) ELSE digits

RECURSIVE StripTrailingZeros(_)
StripTrailingZeros(digits) ==
    IF digits # <<>> /\ digits[Len(digits)] = "0"
    THEN StripTrailingZeros(SubSeq(digits, 1, Len(digits) - 1)) ELSE digits

AllDigits(text) == \A i \in 1 .. Len(text) : text[i] \in Digits

\* The literal without its sign.
Unsigned(text) ==
    IF text # <<>> /\ Head(text) \in {"+", "-"} THEN Tail(text) ELSE text

IsNegative(text) == text # <<>> /\ Head(text) = "-"

\* The largest np.long, 2^63 - 1, and the magnitude of the smallest, 2^63.
LongMax == <<"9", "2", "2", "3", "3", "7", "2", "0", "3", "6", "8", "5", "4", "7", "7", "5", "8", "0", "7">>

LongMinMagnitude == <<"9", "2", "2", "3", "3", "7", "2", "0", "3", "6", "8", "5", "4", "7", "7", "5", "8", "0", "8">>

\* a > b for two digit sequences of one length.
DigitsGreater(a, b) ==
    \E i \in 1 .. Len(a) :
        /\ DigitValue[a[i]] > DigitValue[b[i]]
        /\ \A j \in 1 .. i - 1 : a[j] = b[j]

\* The magnitude does not fit the 64 bits of np.long.
LongOverflow(neg, digits) ==
    \/ Len(digits) > Len(LongMax)
    \/ /\ Len(digits) = Len(LongMax)
       /\ DigitsGreater(digits, IF neg THEN LongMinMagnitude ELSE LongMax)

\* np.long(value) of a text: the decimal literal of int(), then the
\* conversion to 64 bits.
np_long(value) ==
    LET body == Unsigned(value)
        digits == StripLeadingZeros(body)
    IN  IF body = <<>> \/ ~AllDigits(body)
        THEN Raise("ValueError",
                   <<"invalid literal for int() with base 10">>)
        ELSE IF LongOverflow(IsNegative(value), digits)
        THEN Raise("OverflowError",
                   <<"Python int too large to convert to C long">>)
        ELSE Ok(PyNumber("long", IsNegative(value), digits, 0))

\* np.float64(value) of a text: digits around one point, at least one
\* digit.
np_float64(value) ==
    LET body == Unsigned(value)
        whole == first_field(body, ".")
        fraction == IF Contains(body, ".")
                    THEN split_once(body, ".")[2] ELSE <<>>
        kept == StripTrailingZeros(fraction)
    IN  IF \/ ~AllDigits(whole)
           \/ ~AllDigits(fraction)
           \/ whole \o fraction = <<>>
        THEN Raise("ValueError", <<"could not convert string to float">>)
        ELSE Ok(PyNumber("float64", IsNegative(value),
                         StripLeadingZeros(whole \o kept), Len(kept)))

\* convert_value(value): only ValueError is caught.
convert_value(value) ==
    LET stripped == strip(value)
        caught(result) ==
            IF result.exc # NoExc /\ result.exc.type = "ValueError"
            THEN Ok(PyStr(stripped))
            ELSE result
    IN  IF Contains(stripped, ".")
        THEN caught(np_float64(stripped))
        ELSE caught(np_long(stripped))

\* One turn of the loop of parse_gpd_file, on the parameters read so far.
gpd_line(line, params) ==
    LET stripped == strip(line)
        parts == split_once(stripped, ":")
        key == strip(parts[1])
        value == strip(first_field(parts[2], ";"))
        store(converted) ==
            IF converted.exc # NoExc THEN converted
            ELSE Ok((key :> converted.val) @@ params)
    IN  IF stripped = <<>> \/ Head(stripped) = ";" THEN Ok(params)
        ELSE IF ~Contains(stripped, ":") THEN Ok(params)
        ELSE IF key # <<>> /\ value # <<>> THEN store(convert_value(value))
        ELSE Ok(params)

RECURSIVE gpd_lines(_, _)
gpd_lines(lines, params) ==
    LET next(read) ==
            IF read.exc # NoExc THEN read
            ELSE gpd_lines(Tail(lines), read.val)
    IN  IF lines = <<>> THEN Ok(params)
        ELSE next(gpd_line(Head(lines), params))

\* parse_gpd_file(gpd_name), of the lines of the file.
parse_gpd_file_lines(lines) == gpd_lines(lines, <<>>)

(***************************************************************************)
(* SpecCalls: single calls of the functions, on a bounded family of        *)
(* arguments                                                               *)
(***************************************************************************)
\* A call: the function and its arguments (the ones it does not take are
\* left at these values).
NoTarget ==
    [GridHeight |-> 0, GridWidth |-> 0, GridMapOriginColumn |-> 0,
     GridMapOriginRow |-> 0, MapOriginX |-> 0, MapOriginY |-> 0,
     GridMapUnitsPerCell |-> 0]

NoCall ==
    [fn |-> "", short |-> "", group |-> "", var_list |-> {},
     node |-> [data_vars |-> <<>>, subtree |-> ""], var_name |-> "",
     var |-> <<>>, dtype |-> "", target |-> NoTarget, text |-> <<>>,
     lines |-> <<>>]

\* The short names and groups of the registry, and one of each it lacks.
GroupNames ==
    UNION {DOMAIN COLLECTION_INFORMATION[short].data_groups :
           short \in DOMAIN COLLECTION_INFORMATION} \cup {ExtraGroup}

\* The variable names a caller may pass as var_list.
VariableNames ==
    {"albedo", "tb_time_utc", "landcover_class", "landcover_class_fraction"}

RegistryCalls ==
    {[NoCall EXCEPT !.fn = "get_collection_info", !.short = short] :
        short \in ShortNames}
    \cup
    {[NoCall EXCEPT !.fn = fn, !.short = short, !.group = group] :
        fn \in {"get_collection_group_info", "get_excluded_science_variables"},
        short \in ShortNames, group \in GroupNames}
    \cup
    {[NoCall EXCEPT !.fn = fn, !.short = short, !.group = group,
                    !.var_list = var_list] :
        fn \in {"get_flattened_variables", "separate_2d_variables"},
        short \in ShortNames, group \in GroupNames,
        var_list \in SUBSET VariableNames}

\* The call returns (or raises) and leaves its arguments as they are.
Returns(result) ==
    /\ call_pc = "called"
    /\ ret' = result
    /\ call_pc' = "returned"
    /\ arg_after' = call.node
    /\ UNCHANGED call
    /\ UNCHANGED orch_vars
    /\ UNCHANGED grid_vars
    /\ UNCHANGED adapter_vars

CallGetCollectionInfo ==
    /\ call.fn = "get_collection_info"
    /\ Returns(get_collection_info(call.short))

CallGetCollectionGroupInfo ==
    /\ call.fn = "get_collection_group_info"
    /\ Returns(get_collection_group_info(call.short, call.group))

CallGetExcludedScienceVariables ==
    /\ call.fn = "get_excluded_science_variables"
    /\ Returns(get_excluded_science_variables(call.short, call.group))

CallGetFlattenedVariables ==
    /\ call.fn = "get_flattened_variables"
    /\ Returns(get_flattened_variables(call.short, call.group, call.var_list))

CallSeparate2dVariables ==
    /\ call.fn = "separate_2d_variables"
    /\ Returns(separate_2d_variables(call.group, call.short, call.var_list))

\* A variable of the given shape: rank 1 (N,), rank 2 (N, width) or
\* rank 3 (1, N, 3).
ShapedVariable(shape) ==
    [data |-> IF Len(shape) = 1 THEN [i \in 1 .. shape[1] |-> Num(i)]
              ELSE IF Len(shape) = 2
              THEN [i \in 1 .. shape[1] |->
                       [k \in 1 .. shape[2] |-> Num(10 * k + i)]]
              ELSE <<[i \in 1 .. shape[2] |->
                         [k \in 1 .. shape[3] |-> Num(10 * k + i)]]>>,
     shape |-> shape,
     dtype |-> "int32",
     encoding |-> MkDict({<<"_FillValue", Num(254)>>}),
     attrs |-> MkDict({<<"long_name", Str("test_var")>>})]

SplitShapes ==
    {<<n, 3>> : n \in 1 .. NSamples} \cup
    {<<NSamples, 2>>, <<NSamples, 4>>, <<3, NSamples + 3>>,
     <<NSamples>>, <<3>>, <<1, NSamples, 3>>}

\* The other variables of the tree split_2d_variable is called on.
SplitNeighbours ==
    {{}, {"albedo"}, {"albedo", "tb_time_utc"}, {"albedo", "test_var_2"}}

SplitCalls(shape) ==
    {[NoCall EXCEPT
        !.fn = "split_2d_variable",
        !.var_name = var_name,
        !.node = [data_vars |->
                     [name \in others \cup {var_name} |->
                         IF name = var_name THEN ShapedVariable(shape)
                         ELSE IF name = "albedo" THEN ScienceVariable
                         ELSE TextVariable],
                  subtree |-> ""]] :
        var_name \in {"test_var", "landcover_class"},
        others \in SplitNeighbours}

\* The dtype of a variable in memory with the dtype its encoding names (or
\* none), as prepare_variable meets them.
PrepareDtypes ==
    { <<"float32", None>>, <<"float64", Str("float64")>>,
      <<"float16", None>>, <<"float32", Str("uint16")>>,
      <<"int16", None>>, <<"uint8", None>>, <<"bool", None>>,
      <<"datetime64[ns]", None>>, <<"<U24", None>>, <<"object", None>>,
      <<"<U24", Str("S24")>> }

\* The data of a variable of the dtype: its first sample is the dtype's
\* missing value when it has one.
PrepareData(dtype) ==
    [i \in 1 .. NSamples |->
        IF dtype \in FloatDtypes \cup DatetimeDtypes
        THEN (IF i = 1 THEN NaN ELSE Num(i))
        ELSE IF dtype \in IntDtypes THEN Num(i)
        ELSE IF dtype \in BoolDtypes THEN Bool(i % 2 = 0)
        ELSE (IF i = 1 THEN Str("") ELSE Str(Letters[i]))]

PrepareVariables ==
    UNION {
        {[data |-> PrepareData(dc[1]),
          shape |-> <<NSamples>>,
          dtype |-> dc[1],
          encoding |-> MkDict({<<"_FillValue", fills[1]>>, <<"dtype", dc[2]>>,
                               <<"coordinates", coordinates>>}),
          attrs |-> MkDict({<<"_FillValue", fills[2]>>,
                            <<"long_name", Str("a variable")>>,
                            <<"grid_mapping", grid_mapping>>})] :
            fills \in {<<None, None>>,
                       <<FillCandidate(dc[1], 1), None>>,
                       <<None, FillCandidate(dc[1], 2)>>},
            coordinates \in {None, Str("/latitude /longitude")},
            grid_mapping \in {None, Str("other_crs")}} :
        dc \in PrepareDtypes}

\* grid_info: the samples on the diagonal, or the last one off the grid.
PrepareInfos ==
    {[src |-> [rows |-> Indices(GridHeight, index_case),
               cols |-> Indices(GridWidth, "ok")],
      target |-> [GridHeight |-> GridHeight, GridWidth |-> GridWidth]] :
        index_case \in {"ok", "out_of_range"}}

\* prepare_variable(var, grid_info): the grid_info rides in `node`.
PrepareCalls ==
    {[NoCall EXCEPT !.fn = "prepare_variable", !.var = var, !.node = info] :
        var \in PrepareVariables, info \in PrepareInfos}

AllDtypes ==
    FloatDtypes \cup IntDtypes \cup TextDtypes \cup BytesDtypes
    \cup BoolDtypes \cup DatetimeDtypes \cup ObjectDtypes

DefaultFillCalls ==
    {[NoCall EXCEPT !.fn = "default_fill_value", !.dtype = dtype] :
        dtype \in AllDtypes}

\* in_dt after split_2d_variable(in_dt, var_name): out_dt = in_dt.copy()
\* takes every assignment and the del, in_dt none.
\* A variant where out_dt is in_dt itself.
in_dt_after_split_in_place(in_dt, var_name) ==
    LET after(result) == IF result.exc = NoExc THEN result.val ELSE in_dt
    IN  after(split_2d_variable(in_dt, var_name))

in_dt_after_split(in_dt, var_name) == in_dt

CallSplit2dVariable ==
    /\ call.fn = "split_2d_variable"
    /\ call_pc = "called"
    /\ ret' = split_2d_variable(call.node, call.var_name)
    /\ arg_after' = in_dt_after_split(call.node, call.var_name)
    /\ call_pc' = "returned"
    /\ UNCHANGED call
    /\ UNCHANGED orch_vars
    /\ UNCHANGED grid_vars
    /\ UNCHANGED adapter_vars

CallPrepareVariable ==
    /\ call.fn = "prepare_variable"
    /\ Returns(prepare_variable(call.var, call.node))

CallDefaultFillValue ==
    /\ call.fn = "default_fill_value"
    /\ Returns(Ok(default_fill_value(call.dtype)))

\* The grid parameters handed to the geotransform: the accepted origin
\* -0.5 and two others for each of the column and the row, two map
\* origins and two cell sizes (1000.0 and 9008.0), all in tenths.
OriginValues == {-5, 0, 5}

TargetInfos ==
    {[GridHeight |-> height, GridWidth |-> width,
      GridMapOriginColumn |-> column, GridMapOriginRow |-> row,
      MapOriginX |-> x, MapOriginY |-> 50000,
      GridMapUnitsPerCell |-> cell] :
        height \in 1 .. GridHeight, width \in 1 .. GridWidth,
        column \in OriginValues, row \in OriginValues,
        x \in {-50000, 0}, cell \in {10000, 90080}}

CrsCalls ==
    {[NoCall EXCEPT !.fn = fn, !.target = target] :
        fn \in {"geotransform_from_target_info", "compute_dims"},
        target \in TargetInfos}

CallGeotransformFromTargetInfo ==
    /\ call.fn = "geotransform_from_target_info"
    /\ Returns(geotransform_from_target_info(call.target))

CallComputeDims ==
    /\ call.fn = "compute_dims"
    /\ Returns(compute_dims(call.target))

\* The texts handed to convert_value: every text of up to MaxTextLen of the
\* characters below, the three of test_convert_value, and integers around
\* the ends of the 64-bit range.
MaxTextLen == 4

ValueChars == {" ", ".", "-", "0", "1", "a"}

Texts(chars, n) == UNION {[1 .. len -> chars] : len \in 0 .. n}

ConvertSamples ==
    {
     <<" ", "1", "2", "3", " ">>,
     <<" ", "1", "2", "3", ".", "4", "5", " ">>,
     <<"a", "b", "c", " ">>,
     <<"-", "7", "0", "0", "0", ".", "0">>,
     <<"3", "8", "5", "6">>,
     <<"9", "2", "2", "3", "3", "7", "2", "0", "3", "6", "8", "5", "4",
       "7", "7", "5", "8", "0", "7">>,
     <<"9", "2", "2", "3", "3", "7", "2", "0", "3", "6", "8", "5", "4",
       "7", "7", "5", "8", "0", "8">>,
     <<"-", "9", "2", "2", "3", "3", "7", "2", "0", "3", "6", "8", "5",
       "4", "7", "7", "5", "8", "0", "8">>,
     <<"-", "9", "2", "2", "3", "3", "7", "2", "0", "3", "6", "8", "5",
       "4", "7", "7", "5", "8", "0", "9">>,
     <<"9", "9", "9", "9", "9", "9", "9", "9", "9", "9", "9", "9", "9",
       "9", "9", "9", "9", "9", "9", "9">>,
     <<"0", "0", "0", "0", "0", "0", "0", "0", "0", "0", "0", "0", "0",
       "0", "0", "0", "0", "0", "0", "0", "0", "1">>
    }

ConvertCalls ==
    {[NoCall EXCEPT !.fn = "convert_value", !.text = text] :
        text \in Texts(ValueChars, MaxTextLen) \cup ConvertSamples}

\* The lines of gpd files: those of test_parse_gpd_file and others with a
\* repeated key, an integer beyond 64 bits, an indented comment, no
\* separator, and nothing.
GpdSampleLines ==
    <<
     <<";", " ", "E", "x", "a", "m", "p", "l", "e", " ", "g", "p", "d",
       " ", "f", "o", "r", " ", "p", "a", "r", "s", "i", "n", "g">>,
     <<"M", "a", "p", " ", "O", "r", "i", "g", "i", "n", " ", "X", ":",
       " ", "-", "7", "0", "0", "0", ".", "0", " ", " ", ";", " ", "p",
       "i", "n", "n", "e", "d", " ", "l", "o", "c", "a", "t", "i", "o",
       "n", " ", "f", "o", "r", " ", "M", "a", "p", " ", "O", "r", "i",
       "g", "i", "n", " ", "X">>,
     <<"M", "a", "p", " ", "O", "r", "i", "g", "i", "n", " ", "Y", ":",
       " ", "0", ".", "0">>,
     <<"G", "r", "i", "d", " ", "M", "a", "p", " ", "U", "n", "i", "t",
       "s", " ", "p", "e", "r", " ", "C", "e", "l", "l", ":", " ", "1",
       "0", "0", "0", ".", "0">>,
     <<"G", "r", "i", "d", " ", "M", "a", "p", " ", "O", "r", "i", "g",
       "i", "n", " ", "C", "o", "l", "u", "m", "n", ":", " ", "-", "0",
       ".", "5">>,
     <<"G", "r", "i", "d", " ", "M", "a", "p", " ", "O", "r", "i", "g",
       "i", "n", " ", "R", "o", "w", ":", " ", "-", "0", ".", "5">>,
     <<"S", "o", "m", "e", "t", "h", "i", "n", "g", " ", "T", "h", "a",
       "t", " ", "E", "x", "i", "s", "t", "s", " ", "B", "u", "t", " ",
       "I", "s", " ", "N", "o", "t", " ", "U", "s", "e", "d", ":", " ",
       "H", "a", "s", " ", "A", " ", "V", "a", "l", "u", "e">>,
     <<"G", "r", "i", "d", " ", "W", "i", "d", "t", "h", ":", " ", "3",
       "8", "5", "6">>,
     <<"M", "a", "p", " ", "O", "r", "i", "g", "i", "n", " ", "X", ":",
       " ", "1", ".", "0">>,
     <<"G", "r", "i", "d", " ", "W", "i", "d", "t", "h", ":", " ", "9",
       "9", "9", "9", "9", "9", "9", "9", "9", "9", "9", "9", "9", "9",
       "9", "9", "9", "9", "9", "9">>,
     <<" ", " ", ";", " ", "G", "r", "i", "d", " ", "H", "e", "i", "g",
       "h", "t", ":", " ", "1", "6", "2", "4">>,
     <<"n", "o", " ", "s", "e", "p", "a", "r", "a", "t", "o", "r", " ",
       "h", "e", "r", "e">>,
     <<>>
    >>

LineChars == {" ", ";", ":", ".", "1", "k"}

\* The files: one short line of the characters above, the file of
\* test_parse_gpd_file, and every two of the sample lines.
GpdFiles ==
    {<<line>> : line \in Texts(LineChars, MaxTextLen)}
    \cup {SubSeq(GpdSampleLines, 1, 7)}
    \cup {<<GpdSampleLines[i], GpdSampleLines[j]>> :
            i, j \in 1 .. Len(GpdSampleLines)}

GpdCalls ==
    {[NoCall EXCEPT !.fn = "parse_gpd_file", !.lines = lines] :
        lines \in GpdFiles}

CallConvertValue ==
    /\ call.fn = "convert_value"
    /\ Returns(convert_value(call.text))

CallParseGpdFile ==
    /\ call.fn = "parse_gpd_file"
    /\ Returns(parse_gpd_file_lines(call.lines))

CallsInit ==
    /\ in_file = <<>>
    /\ in_data = <<>>
    /\ gpd_bad = ""
    /\ pc = "idle"
    /\ out_log = <<>>
    /\ todo_groups = {}
    /\ cur_group = ""
    /\ todo_vars = {}
    /\ grid_info = <<>>
    /\ short_name = ""
    /\ error = NoExc
    /\ reads = {}
    /\ gv_var = <<>>
    /\ gv_info = <<>>
    /\ gv_pc = "idle"
    /\ gv_fill = None
    /\ gv_result = NotCalled
    /\ \/ call \in RegistryCalls \cup PrepareCalls \cup DefaultFillCalls
                    \cup CrsCalls \cup ConvertCalls \cup GpdCalls
       \/ \E shape \in SplitShapes : call \in SplitCalls(shape)
    /\ call_pc = "called"
    /\ ret = <<>>
    /\ arg_after = <<>>
    /\ AdapterIdle

CallsNext ==
    \/ CallGetCollectionInfo
    \/ CallGetCollectionGroupInfo
    \/ CallGetExcludedScienceVariables
    \/ CallGetFlattenedVariables
    \/ CallSeparate2dVariables
    \/ CallSplit2dVariable
    \/ CallPrepareVariable
    \/ CallDefaultFillValue
    \/ CallGeotransformFromTargetInfo
    \/ CallComputeDims
    \/ CallConvertValue
    \/ CallParseGpdFile

SpecCalls == CallsInit /\ [][CallsNext]_vars

(***************************************************************************)
(* Properties of the single calls (checked under SpecCalls)                *)
(***************************************************************************)
Returned(fn) == call_pc = "returned" /\ call.fn = fn

KnownShort == call.short \in DOMAIN COLLECTION_INFORMATION

KnownGroup ==
    /\ KnownShort
    /\ call.group \in DOMAIN COLLECTION_INFORMATION[call.short].data_groups

\* The message of the exception names the text.
Mentions(exc, text) == \E k \in 1 .. Len(exc.msg) : exc.msg[k] = text

UnknownCollectionError(exc) ==
    /\ exc.type = "InvalidCollectionError"
    /\ exc.msg[1] = "No collection information for "
    /\ Mentions(exc, call.short)

UnknownGroupError(exc) ==
    /\ exc.type = "InvalidCollectionError"
    /\ exc.msg[1] = "No group named "
    /\ Mentions(exc, call.group)
    /\ Mentions(exc, call.short)

\* C11: get_collection_info raises InvalidCollectionError naming the short
\* name when the short name is unknown; get_collection_group_info raises
\* that unknown-collection error when the short name is unknown, and an
\* InvalidCollectionError naming the group and the collection when only
\* the group is unknown; both return the registry's entry otherwise.
C11_LookupErrors ==
    /\ Returned("get_collection_info") =>
           IF KnownShort THEN ret = Ok(COLLECTION_INFORMATION[call.short])
           ELSE UnknownCollectionError(ret.exc)
    /\ Returned("get_collection_group_info") =>
           IF ~KnownShort
           THEN UnknownCollectionError(ret.exc) /\ ~UnknownGroupError(ret.exc)
           ELSE IF ~KnownGroup THEN UnknownGroupError(ret.exc)
           ELSE ret = Ok(COLLECTION_INFORMATION[call.short]
                             .data_groups[call.group])

C11_Witness ==
    /\ Returned("get_collection_group_info")
    /\ KnownShort
    /\ ~KnownGroup
    /\ call.group # ExtraGroup
    /\ UnknownGroupError(ret.exc)

\* C12: for a known group of a known collection get_excluded_science_variables
\* raises nothing and returns exactly the configured exclusions, the empty
\* set when the group configures none.
C12_ExcludedVariables ==
    (Returned("get_excluded_science_variables") /\ KnownGroup) =>
        /\ ret.exc = NoExc
        /\ ret.val = ConfiguredExcluded(call.short, call.group)
        /\ "ExcludedScienceVariables" \notin
               DOMAIN COLLECTION_INFORMATION[call.short].data_groups[call.group]
           => ret.val = {}

C12_Witness ==
    /\ Returned("get_excluded_science_variables")
    /\ call.short = "SPL2SMA"
    /\ call.group = "Radar_Data"
    /\ ret = Ok({})

\* C13: with an unknown short name get_excluded_science_variables and
\* get_flattened_variables raise InvalidCollectionError naming the short
\* name; they return no set.
C13_UnknownCollectionNotSwallowed ==
    ((Returned("get_excluded_science_variables")
      \/ Returned("get_flattened_variables")) /\ ~KnownShort) =>
        /\ ret.exc # NoExc
        /\ UnknownCollectionError(ret.exc)

C13_Witness ==
    /\ Returned("get_flattened_variables")
    /\ ~KnownShort
    /\ call.var_list # {}
    /\ ret.exc.type = "InvalidCollectionError"

\* C14: for a known group get_flattened_variables returns exactly the
\* configured flatten candidates that are in present_variables: a subset
\* of present_variables, empty when the group configures no flattening.
C14_FlattenedVariables ==
    Returned("get_flattened_variables") =>
        /\ KnownGroup => ret.exc = NoExc
        /\ ret.exc = NoExc =>
               /\ ret.val = ConfiguredFlattened(call.short, call.group)
                                \cap call.var_list
               /\ ret.val \subseteq call.var_list
               /\ "FlattenedVariables" \notin
                      DOMAIN COLLECTION_INFORMATION[call.short]
                                 .data_groups[call.group]
                  => ret.val = {}

C14_Witness ==
    /\ Returned("get_flattened_variables")
    /\ call.short = "SPL2SMP"
    /\ call.var_list = {"albedo", "landcover_class"}
    /\ ret = Ok({"landcover_class"})

SplitVariable == call.node.data_vars[call.var_name]

SplitShapeIsN3 ==
    Len(SplitVariable.shape) = 2 /\ SplitVariable.shape[2] = 3

SplitName(k) == call.var_name \o <<"_1", "_2", "_3">>[k]

SplitNames == {SplitName(k) : k \in 1 .. 3}

\* C16: split_2d_variable on a variable of shape (N, 3) returns a tree that
\* holds name_1, name_2, name_3, each of shape (N,) and equal to columns 0,
\* 1, 2 of the original; the tree does not hold the original name, and
\* every other variable of it is a variable of the input tree, unchanged,
\* none of the input's other variables being lost.
C16_SplitComponents ==
    (Returned("split_2d_variable") /\ SplitShapeIsN3) =>
        /\ ret.exc = NoExc
        /\ \A k \in 1 .. 3 :
               /\ SplitName(k) \in DOMAIN ret.val.data_vars
               /\ ret.val.data_vars[SplitName(k)].shape
                      = <<SplitVariable.shape[1]>>
               /\ Len(ret.val.data_vars[SplitName(k)].data)
                      = SplitVariable.shape[1]
               /\ \A i \in 1 .. SplitVariable.shape[1] :
                      ret.val.data_vars[SplitName(k)].data[i]
                          = SplitVariable.data[i][k]
        /\ call.var_name \notin DOMAIN ret.val.data_vars
        /\ \A name \in DOMAIN ret.val.data_vars \ SplitNames :
               /\ name \in DOMAIN call.node.data_vars
               /\ ret.val.data_vars[name] = call.node.data_vars[name]
        /\ DOMAIN call.node.data_vars \ ({call.var_name} \cup SplitNames)
               \subseteq DOMAIN ret.val.data_vars

C16_Witness ==
    /\ Returned("split_2d_variable")
    /\ SplitVariable.shape = <<NSamples, 3>>
    /\ DOMAIN call.node.data_vars = {call.var_name, "albedo", "tb_time_utc"}
    /\ DOMAIN ret.val.data_vars = SplitNames \cup {"albedo", "tb_time_utc"}
    /\ ret.val.data_vars[SplitName(2)].data[NSamples] = Num(20 + NSamples)

PreparedOk == Returned("prepare_variable") /\ ret.exc = NoExc

\* The cells of the prepared grid that no valid sample of the source
\* addresses.
UntouchedCells ==
    {cell \in DOMAIN ret.val.grid.cells :
        \A k \in 1 .. Len(ret.val.grid.written) :
            CellOf(call.node, ret.val.grid.written[k]) # cell}

\* The annotations of the result that C18 names, the fill of the untouched
\* cells apart.
PreparedAnnotations ==
    /\ DOMAIN ret.val.attrs = DOMAIN call.var.attrs \cup {"grid_mapping"}
    /\ \A name \in DOMAIN call.var.attrs \ {"grid_mapping"} :
           ret.val.attrs[name] = call.var.attrs[name]
    /\ ret.val.attrs["grid_mapping"] = Str("crs")
    /\ ret.val.encoding["_FillValue"] = variable_fill_value(call.var)
    /\ "coordinates" \in DOMAIN call.var.encoding =>
           ret.val.encoding["coordinates"] = call.var.encoding["coordinates"]

\* What an untouched cell holds when the resolved fill value is `fill`.
FillAsStored(fill, dtype) ==
    IF fill # None THEN fill
    ELSE IF dtype \in TextDtypes \cup BytesDtypes THEN Str("None")
    ELSE IF dtype \in BoolDtypes THEN Bool(FALSE)
    ELSE IF dtype \in DatetimeDtypes THEN NaN
    ELSE None

\* C18 as stated: the attributes are carried, grid_mapping is 'crs', the
\* coordinates encoding is carried, and the _FillValue encoding is the
\* resolved fill value, which is the value of every untouched cell.
C18_Original ==
    PreparedOk =>
        /\ PreparedAnnotations
        /\ \A cell \in UntouchedCells :
               ret.val.grid.cells[cell] = ret.val.encoding["_FillValue"]

\* C18 (amended): the attributes are carried, grid_mapping is 'crs', the
\* coordinates encoding is carried, and the _FillValue encoding is the
\* resolved fill value; the untouched cells hold that value when one is
\* resolved, and when none is (a non-numeric dtype with no fill source:
\* the encoding is null) they hold what the storage dtype makes of null:
\* the text 'None', False, NaT, or null in an object array.
C18_Annotations ==
    PreparedOk =>
        /\ PreparedAnnotations
        /\ \A cell \in UntouchedCells :
               ret.val.grid.cells[cell] =
                   FillAsStored(ret.val.encoding["_FillValue"],
                                ret.val.grid.dtype)
        /\ ret.val.encoding["_FillValue"] = None =>
               ~is_number(ret.val.grid.dtype)

C18_Witness ==
    /\ PreparedOk
    /\ Get(call.var.attrs, "grid_mapping") = Str("other_crs")
    /\ Get(ret.val.attrs, "grid_mapping") = Str("crs")
    /\ Get(ret.val.attrs, "_FillValue") = Num(102)
    /\ Get(ret.val.encoding, "_FillValue") = Num(102)
    /\ Get(ret.val.encoding, "coordinates") = Str("/latitude /longitude")
    /\ \E cell \in UntouchedCells : ret.val.grid.cells[cell] = Num(102)

\* C19: the encoding of the result of prepare_variable holds zlib (True)
\* and complevel (6), both or neither: both when the dtype of the grid is
\* numeric, boolean or datetime, neither when it is text (str) or object,
\* and both exactly when it is neither text nor object.
C19_Compression ==
    PreparedOk =>
        /\ "zlib" \in DOMAIN ret.val.encoding
               <=> "complevel" \in DOMAIN ret.val.encoding
        /\ "zlib" \in DOMAIN ret.val.encoding =>
               /\ ret.val.encoding["zlib"] = Bool(TRUE)
               /\ ret.val.encoding["complevel"] = Num(6)
        /\ ret.val.grid.dtype = storage_dtype(call.var)
        /\ ret.val.grid.dtype \in FloatDtypes \cup IntDtypes \cup BoolDtypes
                                      \cup DatetimeDtypes
               => "zlib" \in DOMAIN ret.val.encoding
        /\ ret.val.grid.dtype \in TextDtypes \cup ObjectDtypes
               => /\ "zlib" \notin DOMAIN ret.val.encoding
                  /\ "complevel" \notin DOMAIN ret.val.encoding
        /\ "zlib" \in DOMAIN ret.val.encoding
               <=> ret.val.grid.dtype \notin TextDtypes \cup ObjectDtypes

C19_Witness ==
    /\ PreparedOk
    /\ call.var.dtype = "<U24"
    /\ ret.val.grid.dtype = "<U24"
    /\ DOMAIN ret.val.encoding \cap {"zlib", "complevel"} = {}
    /\ Get(ret.val.encoding, "_FillValue") = None

MetadataList == SetOf(COLLECTION_INFORMATION[short_name].metadata)

\* The groups an iteration of the loop over data_group_names has begun.
BegunGroups == (DOMAIN in_file \ MetadataList) \ todo_groups

\* C21: once the metadata is written, every top-level group of the input
\* is either a metadata group (in the collection's metadata list, written
\* by the first write as the input holds it, variables, attributes and
\* subtree) or a data group (every other top-level group: the groups the
\* loop iterates), never both; no metadata group is written by an append
\* and no data group by the first write.
C21_GroupPartition ==
    Len(out_log) >= 1 =>
        /\ DOMAIN out_log[1].children = DOMAIN in_file \cap MetadataList
        /\ \A name \in DOMAIN out_log[1].children :
               out_log[1].children[name] = in_file[name]
        /\ pc \in {"groups", "variables", "done"} =>
               /\ todo_groups \subseteq DOMAIN in_file \ MetadataList
               /\ Len(out_log) = 1 =>
                      todo_groups = DOMAIN in_file \ MetadataList
        /\ \A k \in 2 .. Len(out_log) :
               /\ out_log[k].group \in DOMAIN in_file \ MetadataList
               /\ out_log[k].group \notin DOMAIN out_log[1].children
               /\ out_log[k].group \in BegunGroups
        /\ pc = "done" =>
               \A name \in DOMAIN in_file :
                   (name \in DOMAIN out_log[1].children)
                       # (WritesOf(name) # {})

C21_Witness ==
    /\ pc = "done"
    /\ out_log[1].children = ("Metadata" :> in_file["Metadata"])
    /\ in_file["Metadata"].subtree # ""
    /\ Cardinality(DOMAIN in_file) >= 3
    /\ \A name \in DOMAIN in_file \ {"Metadata"} : WritesOf(name) # {}

\* The short name the input file states, when it states one.
InputShortName ==
    in_file["Metadata"].data_vars["DatasetIdentification"].attrs["shortName"].s

UnregisteredInput ==
    /\ "Metadata" \in DOMAIN in_file
    /\ InputShortName \notin DOMAIN COLLECTION_INFORMATION

\* C29: when the short name of the input is not a registered collection
\* process_input makes no write to the output file, goes no further than
\* its first step, and leaves with InvalidCollectionError naming the short
\* name.
C29_UnknownCollectionNoWrite ==
    UnregisteredInput =>
        /\ out_log = <<>>
        /\ pc \in {"start", "failed"}
        /\ pc = "failed" =>
               /\ error.type = "InvalidCollectionError"
               /\ error.msg[1] = "No collection information for "
               /\ \E k \in 1 .. Len(error.msg) : error.msg[k] = InputShortName

C29_Witness ==
    /\ UnregisteredInput
    /\ ExtraGroup \in DOMAIN in_file
    /\ pc = "failed"
    /\ error.type = "InvalidCollectionError"
    /\ out_log = <<>>

\* The input is of a registered collection and holds a top-level group
\* that is neither in the collection's metadata list nor a data group of it.
UnregisteredGroupInput ==
    /\ "Metadata" \in DOMAIN in_file
    /\ InputShortName \in DOMAIN COLLECTION_INFORMATION
    /\ ExtraGroup \in DOMAIN in_file
    /\ ExtraGroup \notin SetOf(COLLECTION_INFORMATION[InputShortName].metadata)
    /\ ExtraGroup \notin
           DOMAIN COLLECTION_INFORMATION[InputShortName].data_groups

\* C30: with such a group in the input process_input never completes and
\* never writes the group, by the first write or by an append; when the
\* loop reaches the group process_input fails with InvalidCollectionError
\* naming the group, the metadata write and the appends of every data group
\* begun before it being in the output file already.
C30_UnregisteredGroupFails ==
    UnregisteredGroupInput =>
        /\ pc # "done"
        /\ \A k \in 1 .. Len(out_log) :
               /\ out_log[k].group # ExtraGroup
               /\ ExtraGroup \notin DOMAIN out_log[k].children
        /\ cur_group = ExtraGroup =>
               /\ pc = "failed"
               /\ error.type = "InvalidCollectionError"
               /\ error.msg[1] = "No group named "
               /\ \E k \in 1 .. Len(error.msg) : error.msg[k] = ExtraGroup
               /\ Len(out_log) >= 1
               /\ out_log[1].mode = "w"
               /\ out_log[1].children = ("Metadata" :> in_file["Metadata"])
               /\ \A g \in (DOMAIN in_file \ {"Metadata", ExtraGroup})
                               \ todo_groups :
                      CoordinateNames \subseteq Written(g)

C30_Witness ==
    /\ UnregisteredGroupInput
    /\ cur_group = ExtraGroup
    /\ pc = "failed"
    /\ error.type = "InvalidCollectionError"
    /\ \E g \in DOMAIN in_file \ {"Metadata", ExtraGroup} :
           /\ g \notin todo_groups
           /\ Written(g) \ CoordinateNames # {}
    /\ todo_groups # {}

\* What the appends of a completed run hold for the group, computed from
\* the input file alone: the coordinates of the group's target grid and
\* the prepared grid of every target variable.
ExpectedEntry(g, name, info) ==
    IF name = "crs" THEN create_crs(info.target)
    ELSE IF name = "x-dim" THEN compute_dims(info.target).val.x_dim
    ELSE IF name = "y-dim" THEN compute_dims(info.target).val.y_dim
    ELSE prepare_variable(in_file[g].data_vars[name], info).val

ExpectedNames(g) ==
    CoordinateNames \cup
    ((DOMAIN in_file[g].data_vars \ ConfiguredExcluded(short_name, g))
     \ ConfiguredFlattened(short_name, g))

GroupContentIsExpected(g) ==
    LET expected(info) ==
            /\ Written(g) = ExpectedNames(g)
            /\ \A name \in ExpectedNames(g) :
                   /\ Cardinality(WritesOfName(g, name)) = 1
                   /\ \A k \in WritesOfName(g, name) :
                          out_log[k].entries[name] = ExpectedEntry(g, name, info)
    IN  expected(get_grid_information(in_file, g, short_name, gpd_bad).val)

\* The names of the group that flatten_2d_data may add or remove.
FlattenNames(g) ==
    IF short_name \in DOMAIN COLLECTION_INFORMATION
       /\ g \in DOMAIN COLLECTION_INFORMATION[short_name].data_groups
    THEN UNION {{name} \cup {component_name(name, k) : k \in 1 .. 3} :
                   name \in ConfiguredFlattened(short_name, g)}
    ELSE {}

\* C27: whatever the order in which the data groups and the variables of a
\* group are iterated, a run that completes has written, for every data
\* group, the content that the input file alone determines, each entry
\* once; the iteration of a group leaves every group not yet iterated as
\* the input file holds it, and changes no variable of its own group other
\* than the flatten candidates, so that the rows, columns and variables
\* read for another group are those of the input file.
C27_OrderIndependence ==
    /\ pc = "done" => \A g \in InputDataGroups : GroupContentIsExpected(g)
    /\ DOMAIN in_data = DOMAIN in_file
    /\ \A g \in todo_groups : in_data[g] = in_file[g]
    /\ \A g \in DOMAIN in_file :
           \A name \in DOMAIN in_file[g].data_vars \ FlattenNames(g) :
               /\ name \in DOMAIN in_data[g].data_vars
               /\ in_data[g].data_vars[name] = in_file[g].data_vars[name]

C27_Witness ==
    /\ pc = "done"
    /\ short_name = "SPL2SMA"
    /\ Cardinality(InputDataGroups) = 3
    /\ out_log[2].group = "Radar_Data"
    /\ out_log[Len(out_log)].group = "Ancillary_Data"
    /\ \A g \in InputDataGroups : GroupContentIsExpected(g)

\* The output of a completed run is fully written: one mode 'w' write, the
\* metadata; for every data group one append of crs, x-dim and y-dim and
\* one append for each target variable, and no other append.
FullyWritten ==
    /\ Len(out_log) >= 1
    /\ {k \in 1 .. Len(out_log) : out_log[k].mode = "w"} = {1}
    /\ todo_groups = {}
    /\ todo_vars = {}
    /\ \A g \in InputDataGroups :
           /\ Cardinality({k \in WritesOf(g) :
                              DOMAIN out_log[k].entries = CoordinateNames}) = 1
           /\ \A name \in ExpectedNames(g) :
                  Cardinality(WritesOfName(g, name)) = 1
           /\ Cardinality(WritesOf(g))
                  = 1 + Cardinality(ExpectedNames(g) \ CoordinateNames)
    /\ \A k \in 2 .. Len(out_log) : out_log[k].group \in InputDataGroups

\* A step of process_input goes forward: it never returns to the start,
\* never takes up again a group or a variable it has iterated, only
\* appends to what was written, and nothing follows the terminal states.
StepsForward ==
    /\ pc \notin {"done", "failed"}
    /\ pc' # "start"
    /\ pc # "start" => todo_groups' \subseteq todo_groups
    /\ (pc = "groups" /\ pc' # "done") =>
           /\ todo_groups' # todo_groups
           /\ cur_group' \in todo_groups \ todo_groups'
    /\ pc = "variables" =>
           /\ todo_vars' \subseteq todo_vars
           /\ todo_vars' # todo_vars
           /\ cur_group' = cur_group
           /\ todo_groups' = todo_groups
    /\ Len(out_log') \in {Len(out_log), Len(out_log) + 1}
    /\ SubSeq(out_log', 1, Len(out_log)) = out_log

\* C28: process_input terminates: it eventually fails or is done, and
\* when no step fails it is done with the output fully written, the
\* metadata once, the crs, x-dim and y-dim of each data group once and each
\* target variable of each group once; every step goes forward.
C28_Terminates ==
    /\ <>(pc = "failed" \/ (pc = "done" /\ FullyWritten))
    /\ [](pc = "done" => FullyWritten)
    /\ [][StepsForward]_vars

C28_Witness ==
    /\ pc = "done"
    /\ FullyWritten
    /\ Cardinality(InputDataGroups) >= 2
    /\ Len(out_log) >= 6

(***************************************************************************)
(* Properties of the geotransform (checked under SpecCalls)                *)
(***************************************************************************)
\* Both origins of the call's grid parameters are -0.5.
CellCentreOrigins ==
    /\ call.target.GridMapOriginColumn = -5
    /\ call.target.GridMapOriginRow = -5

\* C22: building a geotransform succeeds only when the origin column and
\* the origin row are both -0.5; with any other value of either it raises
\* InvalidGPDError and gives no geotransform.  The geotransform it gives has
\* both rotations 0 and pixel_height = -pixel_width.
C22_GeotransformOrigins ==
    Returned("geotransform_from_target_info") =>
        /\ (ret.exc = NoExc) <=> CellCentreOrigins
        /\ ~CellCentreOrigins =>
               /\ ret.exc.type = "InvalidGPDError"
               /\ ret.val = <<>>
        /\ ret.exc = NoExc =>
               /\ ret.val.row_rotation = 0
               /\ ret.val.column_rotation = 0
               /\ ret.val.pixel_height = -ret.val.pixel_width

\* A geotransform was refused for an origin row that is not -0.5 while the
\* origin column is.
C22_Witness ==
    /\ Returned("geotransform_from_target_info")
    /\ call.target.GridMapOriginColumn = -5
    /\ call.target.GridMapOriginRow = 5
    /\ ret.exc # NoExc

\* The centre of cell `index` along an axis that starts at `origin` with
\* cells of `cell` tenths: origin + (index + 0.5) * cell.
CellCentre(origin, cell, index) == origin + ((10 * index + 5) * cell) \div 10

\* C23: compute_dims on a grid of width W and height H returns W
\* x-coordinates and H y-coordinates, x[i] the x of the centre of cell
\* (i, 0) and y[j] the y of the centre of cell (0, j); the x-coordinates
\* strictly increase and the y-coordinates strictly decrease.
C23_DimensionCoordinates ==
    (Returned("compute_dims") /\ ret.exc = NoExc) =>
        LET x == ret.val.x_dim.data
            y == ret.val.y_dim.data
            target == call.target
        IN  /\ Len(x) = target.GridWidth
            /\ Len(y) = target.GridHeight
            /\ \A i \in 1 .. Len(x) :
                   x[i] = CellCentre(target.MapOriginX,
                                     target.GridMapUnitsPerCell, i - 1)
            /\ \A j \in 1 .. Len(y) :
                   y[j] = CellCentre(target.MapOriginY,
                                     -target.GridMapUnitsPerCell, j - 1)
            /\ \A i \in 1 .. Len(x) - 1 : x[i] < x[i + 1]
            /\ \A j \in 1 .. Len(y) - 1 : y[j] > y[j + 1]

\* compute_dims returned the coordinates of a grid with more than one
\* column and more than one row.
C23_Witness ==
    /\ Returned("compute_dims")
    /\ ret.exc = NoExc
    /\ Len(ret.val.x_dim.data) > 1
    /\ Len(ret.val.y_dim.data) > 1
    /\ ret.val.x_dim.data[1] = call.target.MapOriginX + 45040

(***************************************************************************)
(* Properties of the gpd reader (checked under SpecCalls)                  *)
(***************************************************************************)
\* C25 as stated: convert_value never raises; a value with a '.' comes
\* back as a 64-bit float or, failing that, as the trimmed text, and a
\* value without one as an integer or, failing that, as the trimmed text.
C25_NeverRaises ==
    Returned("convert_value") =>
        /\ ret.exc = NoExc
        /\ ret.val.k \in {"float64", "long", "str"}
        /\ ret.val.k = "float64" => Contains(call.text, ".")
        /\ ret.val.k = "long" => ~Contains(call.text, ".")
        /\ ret.val.k = "str" => ret.val.text = strip(call.text)

\* The text before the first ch, the whole text when it has none.
UpTo(text, ch) ==
    SubSeq(text, 1,
           CHOOSE n \in 0 .. Len(text) :
               /\ n = Len(text) \/ text[n + 1] = ch
               /\ \A j \in 1 .. n : text[j] # ch)

\* The text after the first ch of a text that has one.
After(text, ch) == SubSeq(text, Len(UpTo(text, ch)) + 2, Len(text))

\* A line that is blank or a comment once its blanks are trimmed.
IsSkipped(line) == strip(line) = <<>> \/ Head(strip(line)) = ";"

HasSeparator(line) == Contains(line, ":")

LineKey(line) == strip(UpTo(strip(line), ":"))

LineValue(line) == strip(UpTo(After(strip(line), ":"), ";"))

\* The lines of the call that are neither skipped nor without a ':'.
SplitLines ==
    {i \in 1 .. Len(call.lines) :
        ~IsSkipped(call.lines[i]) /\ HasSeparator(call.lines[i])}

\* Those of them whose key and value are both non-empty.
ContributingLines ==
    {i \in SplitLines :
        LineKey(call.lines[i]) # <<>> /\ LineValue(call.lines[i]) # <<>>}

\* C24 as stated: every line that is not blank, not a comment and has a
\* ':' puts its key in the result, mapped to its converted value, and the
\* result has no other key.
C24_Original ==
    Returned("parse_gpd_file") =>
        /\ ret.exc = NoExc
        /\ \A i \in SplitLines :
               /\ LineKey(call.lines[i]) \in DOMAIN ret.val
               /\ ret.val[LineKey(call.lines[i])]
                      = convert_value(LineValue(call.lines[i])).val
        /\ \A key \in DOMAIN ret.val :
               \E i \in SplitLines : LineKey(call.lines[i]) = key

\* C24: parse_gpd_file skips the lines that are blank or begin with ';'
\* once trimmed, and the lines without ':'.  Of the others, those whose
\* trimmed key and trimmed, comment-free value are both non-empty
\* contribute: the result holds exactly their keys, each mapped to the
\* converted value of the last line with that key.  When the conversion of
\* a contributing value raises, parse_gpd_file raises it and returns
\* nothing.
C24_ParsedParameters ==
    Returned("parse_gpd_file") =>
        IF \E i \in ContributingLines :
               convert_value(LineValue(call.lines[i])).exc # NoExc
        THEN /\ ret.exc # NoExc
             /\ ret.exc.type = "OverflowError"
             /\ ret.val = <<>>
        ELSE /\ ret.exc = NoExc
             /\ DOMAIN ret.val
                    = {LineKey(call.lines[i]) : i \in ContributingLines}
             /\ \A i \in ContributingLines :
                    (\A j \in ContributingLines :
                         j > i => LineKey(call.lines[j])
                                      # LineKey(call.lines[i]))
                    => ret.val[LineKey(call.lines[i])]
                           = convert_value(LineValue(call.lines[i])).val

\* The file of test_parse_gpd_file was read: its comment line gave
\* nothing, and the value of its second line came without the comment
\* that follows it.
C24_Witness ==
    /\ Returned("parse_gpd_file")
    /\ call.lines = SubSeq(GpdSampleLines, 1, 7)
    /\ ret.exc = NoExc
    /\ Cardinality(DOMAIN ret.val) = 6
    /\ ret.val[LineKey(GpdSampleLines[2])]
           = convert_value(<<"-", "7", "0", "0", "0", ".", "0">>).val

(***************************************************************************)
(* SpecAdapter: SMAPL2GridderAdapter.process_item (adapter.py)             *)
(***************************************************************************)
\* The items handed to process_item have up to MaxAssets assets.  An asset
\* whose roles are None counts as one without roles (`roles or []`).
MaxAssets == 2

AssetKeys == <<"input data", "browse", "metadata", "extra">>

AssetHrefs == <<"href-1", "href-2", "href-3", "href-4">>

AssetRoles == {<<>>, <<"data">>, <<"metadata">>, <<"metadata", "data">>}

ItemAssets ==
    UNION {{[i \in 1 .. n |->
                [key |-> AssetKeys[i], href |-> AssetHrefs[i],
                 roles |-> roles[i]]] :
            roles \in [1 .. n -> AssetRoles]} :
           n \in 0 .. MaxAssets}

\* What a collaborator call does: it returns (NoExc) or raises.
DownloadOutcomes == {NoExc, [type |-> "Exception", msg |-> <<"download">>]}

TransformOutcomes ==
    {NoExc, [type |-> "InvalidGPDError", msg |-> <<"invalid gpd">>],
     [type |-> "TypeError", msg |-> <<"logger">>]}

StageOutcomes == {NoExc, [type |-> "Exception", msg |-> <<"stage">>]}

StopIteration == [type |-> "StopIteration", msg |-> <<>>]

AdapterCall(fn, arg, exc) == [fn |-> fn, arg |-> arg, exc |-> exc]

\* except Exception as exception: the exception is logged and raised again.
Handle(calls, exception) ==
    /\ ad_calls' = Append(calls,
                          AdapterCall("logger.exception", exception.type,
                                      NoExc))
    /\ ad_pc' = "raised"
    /\ ad_return' = [exc |-> exception, val |-> <<>>]

\* The assets with the role 'data', in the order of item.assets.values().
DataAssets ==
    LET is_data(item_asset) == "data" \in SetOf(item_asset.roles)
    IN  SelectSeq(item_assets, is_data)

\* results = item.clone(); results.assets = {}; asset = next(...)
SelectAsset ==
    /\ ad_pc = "start"
    /\ results' = <<>>
    /\ IF DataAssets = <<>>
       THEN /\ Handle(ad_calls, StopIteration)
            /\ UNCHANGED asset
       ELSE /\ asset' = Head(DataAssets)
            /\ ad_pc' = "selected"
            /\ UNCHANGED <<ad_calls, ad_return>>
    /\ UNCHANGED item_assets
    /\ UNCHANGED orch_vars
    /\ UNCHANGED grid_vars
    /\ UNCHANGED call_vars

\* input_filepath = download(asset.href, working_directory, ...)
Download ==
    /\ ad_pc = "selected"
    /\ \E outcome \in DownloadOutcomes :
           LET calls == Append(ad_calls,
                               AdapterCall("download", asset.href, outcome))
           IN  IF outcome = NoExc
               THEN /\ ad_calls' = calls
                    /\ ad_pc' = "downloaded"
                    /\ UNCHANGED ad_return
               ELSE Handle(calls, outcome)
    /\ UNCHANGED <<item_assets, asset, results>>
    /\ UNCHANGED orch_vars
    /\ UNCHANGED grid_vars
    /\ UNCHANGED call_vars

\* final_target_filename = generate_output_filename(asset.href, ...);
\* transform_l2g_input(input_filepath, working_filename, logger=...)
Transform ==
    /\ ad_pc = "downloaded"
    /\ \E outcome \in TransformOutcomes :
           LET named == Append(ad_calls,
                               AdapterCall("generate_output_filename",
                                           asset.href, NoExc))
               calls == Append(named,
                               AdapterCall("transform_l2g_input",
                                           "input_filepath", outcome))
           IN  IF outcome = NoExc
               THEN /\ ad_calls' = calls
                    /\ ad_pc' = "transformed"
                    /\ UNCHANGED ad_return
               ELSE Handle(calls, outcome)
    /\ UNCHANGED <<item_assets, asset, results>>
    /\ UNCHANGED orch_vars
    /\ UNCHANGED grid_vars
    /\ UNCHANGED call_vars

\* staged_url = stage(working_filename, final_target_filename, ...) at the
\* given position of process_item.
StageAt(position) ==
    /\ ad_pc = position
    /\ \E outcome \in StageOutcomes :
           LET calls == Append(ad_calls,
                               AdapterCall("stage", "working_gridded.nc",
                                           outcome))
           IN  IF outcome = NoExc
               THEN /\ ad_calls' = calls
                    /\ ad_pc' = "staged"
                    /\ UNCHANGED ad_return
               ELSE Handle(calls, outcome)
    /\ UNCHANGED <<item_assets, asset, results>>
    /\ UNCHANGED orch_vars
    /\ UNCHANGED grid_vars
    /\ UNCHANGED call_vars

\* A variant that stages the working file also after a transform that
\* raised.
Stage_after_failure ==
    \/ StageAt("transformed")
    \/ /\ Len(ad_calls) > 1
       /\ ad_calls[Len(ad_calls) - 1].fn = "transform_l2g_input"
       /\ StageAt("raised")

Stage == StageAt("transformed")

\* results.assets['data'] = Asset(staged_url, ...); return results
ReturnResults ==
    /\ ad_pc = "staged"
    /\ results' = ("data" :> [href |-> "staged_url", roles |-> <<"data">>,
                              media_type |-> "application/x-netcdf4"])
    /\ ad_return' = Ok([assets |-> results'])
    /\ ad_pc' = "returned"
    /\ UNCHANGED <<item_assets, asset, ad_calls>>
    /\ UNCHANGED orch_vars
    /\ UNCHANGED grid_vars
    /\ UNCHANGED call_vars

AdapterInit ==
    /\ in_file = <<>>
    /\ in_data = <<>>
    /\ gpd_bad = ""
    /\ pc = "idle"
    /\ out_log = <<>>
    /\ todo_groups = {}
    /\ cur_group = ""
    /\ todo_vars = {}
    /\ grid_info = <<>>
    /\ short_name = ""
    /\ error = NoExc
    /\ reads = {}
    /\ gv_var = <<>>
    /\ gv_info = <<>>
    /\ gv_pc = "idle"
    /\ gv_fill = None
    /\ gv_result = NotCalled
    /\ call = <<>>
    /\ call_pc = "idle"
    /\ ret = <<>>
    /\ arg_after = <<>>
    /\ item_assets \in ItemAssets
    /\ asset = NoAsset
    /\ ad_pc = "start"
    /\ ad_calls = <<>>
    /\ results = <<>>
    /\ ad_return = <<>>

AdapterNext ==
    \/ SelectAsset
    \/ Download
    \/ Transform
    \/ Stage
    \/ ReturnResults

SpecAdapter == AdapterInit /\ [][AdapterNext]_vars

(***************************************************************************)
(* Properties of process_item (checked under SpecAdapter)                  *)
(***************************************************************************)
StepNames == <<"download", "transform_l2g_input", "stage">>

\* The download, transform and stage calls made so far, in order.
Steps ==
    LET is_step(c) == c.fn \in SetOf(StepNames)
    IN  SelectSeq(ad_calls, is_step)

\* The positions in ad_calls of the calls that raised.
FailedCalls == {i \in 1 .. Len(ad_calls) : ad_calls[i].exc # NoExc}

\* C26: process_item calls download, transform_l2g_input and stage in that
\* order, each at most once, and each only after the one before it
\* returned: stage only after the transform succeeded.  results gets its
\* one asset, 'data', only after stage returned, and only then is it
\* returned.  When a step raises, the exception is logged and raised to the
\* caller, no other step follows it and no item is returned.
C26_AdapterSteps ==
    ad_pc # "idle" =>
        /\ Len(Steps) <= Len(StepNames)
        /\ \A i \in 1 .. Len(Steps) : Steps[i].fn = StepNames[i]
        /\ \A i \in 1 .. Len(Steps) - 1 : Steps[i].exc = NoExc
        /\ DOMAIN results \subseteq {"data"}
        /\ "data" \in DOMAIN results =>
               /\ Len(Steps) = 3
               /\ Steps[3].exc = NoExc
        /\ ad_pc = "returned" <=> ad_return # <<>> /\ ad_return.exc = NoExc
        /\ ad_pc = "returned" =>
               /\ DOMAIN ad_return.val.assets = {"data"}
               /\ FailedCalls = {}
        /\ ad_pc = "raised" <=> ad_return # <<>> /\ ad_return.exc # NoExc
        /\ \A i \in FailedCalls :
               /\ ad_pc = "raised"
               /\ ad_return.exc = ad_calls[i].exc
               /\ ad_return.val = <<>>
               /\ results = <<>>
               /\ i = Len(ad_calls) - 1
               /\ ad_calls[Len(ad_calls)].fn = "logger.exception"

\* process_item returned the item of a granule whose second asset is the
\* first with the role 'data', after the three steps.
C26_Witness ==
    /\ ad_pc = "returned"
    /\ Len(item_assets) = 2
    /\ asset = item_assets[2]
    /\ Len(Steps) = 3
    /\ ad_calls[1] = AdapterCall("download", "href-2", NoExc)
    /\ "data" \in DOMAIN ad_return.val.assets

====
